---- MODULE Spec2Model ----
(***************************************************************************)
(* A model of the OpenProject terminal client: the API client              *)
(* (src/client.py), the decoders it uses (src/models.py), the create/edit  *)
(* form (src/screens/work_package_form.py) and the work-packages screen    *)
(* (src/screens/work_packages.py).                                         *)
(*                                                                         *)
(* Python values are encoded as follows.                                   *)
(*   None            the empty tuple <<>>; a present value v is <<v>>      *)
(*   dict            a function whose DOMAIN is the set of keys present    *)
(*   list            a sequence                                            *)
(*   "/api/v3/c/n"   the tuple of its path segments <<"api","v3",c,n>>     *)
(***************************************************************************)
EXTENDS Integers, Sequences, FiniteSets, TLC

VARIABLES
    \* ---- one call of a client operation (SpecClient) ----
    callOp,       \* "none", "update", "statuses_for_new", "status_transitions"
    callArgs,     \* the arguments of the call
    callPc,       \* where the coroutine stands
    callWire,     \* the HTTP requests the call has issued, in order
    callForm,     \* the answer to the first request of the call: the form POST of
                  \* a status lookup, the request of a primitive (None until then)
    callCatalog,  \* the answer to the last GET /statuses of the call (None until then)
    callResult,   \* the value returned (None until then)
    callError,    \* the exception that left the call ("" when none)
    callMessage,  \* that exception's message (None when none)
    \* ---- the work-packages screen and the form it pushes (Spec) ----
    screen,       \* the WorkPackagesScreen object and its widgets
    form,         \* the WorkPackageFormScreen object and its widgets
    formLookup,   \* history: what the call the form awaited last (a status
                  \* reload or a save) asked and got
    latestSeen,   \* history: per work package id, the lock version of the most
                  \* recent server answer received for it
    \* ---- the login screen (SpecLogin) ----
    login,        \* the LoginScreen object, its widgets and the clients it made
    \* ---- one call of a decoder of models.py (SpecDecode) ----
    decode,       \* the decoder called, its input and what came of it
    \* ---- the search of a list screen (SpecSearch) ----
    search        \* the screen's list, its filtered list and its search input

clientVars ==
    <<callOp, callArgs, callPc, callWire, callForm, callCatalog, callResult, callError,
      callMessage>>

uiVars == <<screen, form, formLookup, latestSeen>>

vars == <<clientVars, uiVars, login, decode, search>>

(***************************************************************************)
(* Bounds and input domains                                                *)
(***************************************************************************)
MaxLock == 1
MaxAllowed == 2

WPIds == {1, 2}
UserIds == {1}
StatusIds == {1, 2}
TypeIds == {1, 2}
PriorityIds == {1}
ProjectIds == {1}

LockVersions == 0..MaxLock

None == <<>>
Some(v) == <<v>>
Opt(S) == {None} \cup {Some(v) : v \in S}

EmptyDict == [k \in {} |-> k]
Put(d, k, v) == [x \in (DOMAIN d) \cup {k} |-> IF x = k THEN v ELSE d[x]]
\* dict.get(k, default)
Get(d, k, default) == IF k \in DOMAIN d THEN d[k] ELSE default

\* f"/api/v3/{collection}/{id}"
Href(collection, id) == <<"api", "v3", collection, id>>

(***************************************************************************)
(* HTTP: what one request can be answered with, and what _get, _post and   *)
(* _patch make of the answer.                                              *)
(***************************************************************************)
HTTP_OK == 200
HTTP_UNAUTHORIZED == 401
HTTP_CONFLICT == 409
HTTP_SERVER_ERROR == 500
HTTP_NO_CONTENT == 204
HTTP_FOUND == 302
HTTP_NOT_FOUND == 404

Response(status, json) == [kind |-> "response", status |-> status, json |-> json]
TransportFailure == [kind |-> "transport", status |-> 0, json |-> EmptyDict]

FailedResponses ==
    {Response(s, EmptyDict) : s \in {HTTP_UNAUTHORIZED, HTTP_CONFLICT, HTTP_SERVER_ERROR}}
        \cup {TransportFailure}

\* A response whose body is not JSON: response.json() raises on it.
Undecodable(status) == [kind |-> "undecodable", status |-> status, json |-> EmptyDict]

\* The mutant: an exception of the transport passed on as it is.
RequestErrorUnwrapped(resp) ==
    IF resp.kind = "transport" THEN "ConnectError"
    ELSE IF resp.status = HTTP_UNAUTHORIZED THEN "AuthenticationError"
    ELSE IF resp.status < 200 \/ resp.status > 299 THEN "APIError"
    ELSE IF resp.kind = "undecodable" THEN "APIError"
    ELSE ""

\* The exception _get/_post/_patch raise for a response, "" when they return
\* response.json().
RequestError(resp) ==
    IF resp.kind = "transport" THEN "APIError"
    ELSE IF resp.status = HTTP_UNAUTHORIZED THEN "AuthenticationError"
    ELSE IF resp.status < 200 \/ resp.status > 299 THEN "APIError"
    ELSE IF resp.kind = "undecodable" THEN "APIError"
    ELSE ""

\* The exception test_connection raises (lines 62-93); it does not read the
\* body of a 2xx response.
ConnectionError(resp) ==
    IF resp.kind = "transport" THEN "APIError"
    ELSE IF resp.status = HTTP_UNAUTHORIZED THEN "AuthenticationError"
    ELSE IF resp.status < 200 \/ resp.status > 299 THEN "APIError"
    ELSE ""

\* error_detail (lines 125-135): the message of the error body, if it has one.
ErrorDetail(resp) ==
    IF resp.kind = "response" /\ "message" \in DOMAIN resp.json
    THEN resp.json["message"] ELSE ""

\* The message of an exception: its fixed text, the status code formatted
\* into it (None when there is none) and the detail that follows.
Message(text, code, detail) == [text |-> text, code |-> code, detail |-> detail]

\* The message of the exception raised for a response; prefix is
\* "Request failed: " or, for test_connection, "Connection failed: ", and is
\* followed by the text of the exception caught.
ErrorMessage(prefix, resp) ==
    IF resp.kind = "transport" THEN Message(prefix, None, "cause")
    ELSE IF resp.status = HTTP_UNAUTHORIZED
    THEN Message("Authentication failed. Please check your API key.", None, "")
    ELSE IF resp.status < 200 \/ resp.status > 299
    THEN Message("API request failed (HTTP {status})", Some(resp.status), ErrorDetail(resp))
    ELSE Message(prefix, None, "cause")

Request(method, path, json) == [method |-> method, path |-> path, json |-> json]

(***************************************************************************)
(* Decoders (models.py)                                                    *)
(***************************************************************************)
StatusName(i) == CASE i = 1 -> "New" [] i = 2 -> "In Progress" [] OTHER -> "Closed"

\* A Status object as the server sends it.
StatusHal(i) ==
    [_type |-> "Status", id |-> i, name |-> StatusName(i), color |-> "#0066CC"]

\* Status.from_hal_json raises KeyError unless id and name are present.
StatusDecodes(data) == {"id", "name"} \subseteq DOMAIN data

StatusFromHal(data) ==
    [id |-> data["id"], name |-> data["name"],
     color |-> IF "color" \in DOMAIN data THEN Some(data["color"]) ELSE None]

\* WorkPackage.from_hal_json raises KeyError unless id and subject are present.
WorkPackageDecodes(data) == {"id", "subject"} \subseteq DOMAIN data

EmbeddedId(data, rel) ==
    LET embedded == Get(data, "_embedded", EmptyDict)
    IN  IF rel \in DOMAIN embedded /\ "id" \in DOMAIN embedded[rel]
        THEN Some(embedded[rel]["id"]) ELSE None

\* The mutant: the lock version read under the attribute's Python name.
WorkPackageFromHalWrongKey(data) ==
    [id |-> data["id"],
     subject |-> data["subject"],
     description |-> IF "description" \in DOMAIN data
                     THEN Get(data["description"], "raw", "") ELSE "",
     status |-> EmbeddedId(data, "status"),
     type |-> EmbeddedId(data, "type"),
     priority |-> EmbeddedId(data, "priority"),
     assignee |-> EmbeddedId(data, "assignee"),
     lock_version |-> IF "lock_version" \in DOMAIN data
                      THEN Some(data["lock_version"]) ELSE None]

\* WorkPackage.from_hal_json (models.py 146-194), the fields the screens use.
WorkPackageFromHal(data) ==
    [id |-> data["id"],
     subject |-> data["subject"],
     description |-> IF "description" \in DOMAIN data
                     THEN Get(data["description"], "raw", "") ELSE "",
     status |-> EmbeddedId(data, "status"),
     type |-> EmbeddedId(data, "type"),
     priority |-> EmbeddedId(data, "priority"),
     assignee |-> EmbeddedId(data, "assignee"),
     lock_version |-> IF "lockVersion" \in DOMAIN data
                      THEN Some(data["lockVersion"]) ELSE None]

(***************************************************************************)
(* update_work_package (client.py 355-404)                                 *)
(***************************************************************************)
UpdateArgs ==
    [work_package_id : WPIds,
     subject : Opt({"", "Task"}),
     description : Opt({"", "text"}),
     assignee_id : Opt({0} \cup UserIds),
     status_id : Opt({0} \cup {1}),
     priority_id : Opt(PriorityIds),
     lock_version : Opt(LockVersions)]

\* The mutant: the optional arguments tested for truth instead of "is not None".
UpdateDataTruthy(a) ==
    LET d1 == IF a.lock_version # None /\ a.lock_version[1] # 0
              THEN Put(EmptyDict, "lockVersion", a.lock_version[1]) ELSE EmptyDict
        d2 == IF a.subject # None /\ a.subject[1] # ""
              THEN Put(d1, "subject", a.subject[1]) ELSE d1
        d3 == IF a.description # None /\ a.description[1] # ""
              THEN Put(d2, "description", [raw |-> a.description[1]]) ELSE d2
        l1 == IF a.assignee_id # None /\ a.assignee_id[1] # 0
              THEN Put(EmptyDict, "assignee", [href |-> Some(Href("users", a.assignee_id[1]))])
              ELSE EmptyDict
        l2 == IF a.status_id # None /\ a.status_id[1] # 0
              THEN Put(l1, "status", [href |-> Some(Href("statuses", a.status_id[1]))])
              ELSE l1
        l3 == IF a.priority_id # None /\ a.priority_id[1] # 0
              THEN Put(l2, "priority", [href |-> Some(Href("priorities", a.priority_id[1]))])
              ELSE l2
    IN  IF l3 # EmptyDict THEN Put(d3, "_links", l3) ELSE d3

\* The mutant: no special case for the unassign sentinel.
UpdateDataNoSentinel(a) ==
    LET d1 == IF a.lock_version # None
              THEN Put(EmptyDict, "lockVersion", a.lock_version[1]) ELSE EmptyDict
        d2 == IF a.subject # None THEN Put(d1, "subject", a.subject[1]) ELSE d1
        d3 == IF a.description # None
              THEN Put(d2, "description", [raw |-> a.description[1]]) ELSE d2
        l1 == IF a.assignee_id # None
              THEN Put(EmptyDict, "assignee", [href |-> Some(Href("users", a.assignee_id[1]))])
              ELSE EmptyDict
        l2 == IF a.status_id # None
              THEN Put(l1, "status", [href |-> Some(Href("statuses", a.status_id[1]))])
              ELSE l1
        l3 == IF a.priority_id # None
              THEN Put(l2, "priority", [href |-> Some(Href("priorities", a.priority_id[1]))])
              ELSE l2
    IN  IF l3 # EmptyDict THEN Put(d3, "_links", l3) ELSE d3

\* The JSON body update_work_package builds (lines 379-401).
UpdateData(a) ==
    LET d1 == IF a.lock_version # None
              THEN Put(EmptyDict, "lockVersion", a.lock_version[1]) ELSE EmptyDict
        d2 == IF a.subject # None THEN Put(d1, "subject", a.subject[1]) ELSE d1
        d3 == IF a.description # None
              THEN Put(d2, "description", [raw |-> a.description[1]]) ELSE d2
        l1 == IF a.assignee_id # None
              THEN IF a.assignee_id[1] = 0
                   THEN Put(EmptyDict, "assignee", [href |-> None])
                   ELSE Put(EmptyDict, "assignee",
                            [href |-> Some(Href("users", a.assignee_id[1]))])
              ELSE EmptyDict
        l2 == IF a.status_id # None
              THEN Put(l1, "status", [href |-> Some(Href("statuses", a.status_id[1]))])
              ELSE l1
        l3 == IF a.priority_id # None
              THEN Put(l2, "priority", [href |-> Some(Href("priorities", a.priority_id[1]))])
              ELSE l2
    IN  IF l3 # EmptyDict THEN Put(d3, "_links", l3) ELSE d3

\* The request update_work_package issues (line 403).
UpdateRequest(a) == Request("PATCH", <<"work_packages", a.work_package_id>>, UpdateData(a))

\* A work package as the server sends it: work package 1 with its status,
\* type and assignee embedded, any other without relations.
WorkPackageHal(w, lock) ==
    LET base == IF w = 1
                THEN [id |-> w, subject |-> "Task", description |-> [raw |-> "text"],
                      _embedded |-> [status |-> StatusHal(1),
                                     type |-> [id |-> 1, name |-> "Task"],
                                     assignee |-> [id |-> 1, name |-> "John Doe"]]]
                ELSE [id |-> w, subject |-> "Task"]
    IN  IF lock = None THEN base ELSE Put(base, "lockVersion", lock[1])

UpdateResponses ==
    FailedResponses
        \cup {Response(HTTP_OK, WorkPackageHal(w, lock)) :
                w \in WPIds, lock \in Opt(0..(MaxLock + 1))}
        \cup {Response(HTTP_OK, [id |-> 1])}

(***************************************************************************)
(* The form-based status lookups (client.py 453-584)                       *)
(***************************************************************************)
BoundedSeq(S, n) == UNION {[1..k -> S] : k \in 0..n}

\* [Status.from_hal_json(elem) for elem in elements]
DecodeStatuses(elements) == [i \in 1..Len(elements) |-> StatusFromHal(elements[i])]

StatusesForNewArgs == [project_id : ProjectIds, type_id : TypeIds]

StatusTransitionsArgs ==
    [work_package_id : WPIds, type_id : Opt({1}), lock_version : Opt(LockVersions)]

\* get_work_package_form for an existing work package (lines 471-479, 489).
UpdateFormRequest(work_package_id, type_id, lock_version) ==
    LET d1 == IF lock_version # None
              THEN Put(EmptyDict, "lockVersion", lock_version[1]) ELSE EmptyDict
        d2 == IF type_id # None /\ type_id[1] # 0
              THEN Put(d1, "_links", [type |-> [href |-> Some(Href("types", type_id[1]))]])
              ELSE d1
    IN  Request("POST", <<"work_packages", work_package_id, "form">>, d2)

\* get_work_package_form for a new work package (lines 480-489).
CreateFormRequest(project_id, type_id) ==
    LET links == IF type_id # None /\ type_id[1] # 0
                 THEN [type |-> [href |-> Some(Href("types", type_id[1]))]]
                 ELSE EmptyDict
    IN  Request("POST", <<"projects", project_id, "work_packages", "form">>,
                [_links |-> links])

StatusesRequest == Request("GET", <<"statuses">>, EmptyDict)

\* What schema.status._embedded.allowedValues may hold: Status objects, an
\* object of another _type, and a Status object without a name.
AllowedElements ==
    {StatusHal(i) : i \in StatusIds}
        \cup {[_type |-> "CustomOption", id |-> 1, name |-> "Option"]}
        \cup {[_type |-> "Status", id |-> 2]}

\* What payload._embedded.status may hold.
PayloadStatuses ==
    {StatusHal(i) : i \in StatusIds} \cup {[id |-> 1, name |-> StatusName(1)]}

FormHal(allowed, current) ==
    LET schema == [status |-> [_embedded |-> [allowedValues |-> allowed]]]
        payload == IF current = None THEN EmptyDict
                   ELSE [_embedded |-> [status |-> current[1]]]
    IN  [_type |-> "Form", _embedded |-> [schema |-> schema, payload |-> payload]]

FormResponses ==
    FailedResponses
        \cup {Response(HTTP_OK, FormHal(allowed, current)) :
                allowed \in BoundedSeq(AllowedElements, MaxAllowed),
                current \in Opt(PayloadStatuses)}
        \cup {Response(HTTP_OK, [_type |-> "Form"])}

CollectionHal(elements) == [_embedded |-> [elements |-> elements]]

CatalogResponses ==
    FailedResponses
        \cup {Response(HTTP_OK, CollectionHal([i \in 1..Len(ids) |-> StatusHal(ids[i])])) :
                ids \in {<<>>, <<1>>, <<1, 2>>, <<2, 1>>}}
        \cup {Response(HTTP_OK, EmptyDict)}

\* The mutant: allowedValues looked up directly under schema.status.
AllowedValuesNotEmbedded(form_response) ==
    LET schema == Get(Get(form_response, "_embedded", EmptyDict), "schema", EmptyDict)
        status_schema == Get(schema, "status", EmptyDict)
    IN  Get(status_schema, "allowedValues", <<>>)

\* form_response -> allowed_values (lines 508-510, 553-555).
AllowedValues(form_response) ==
    LET schema == Get(Get(form_response, "_embedded", EmptyDict), "schema", EmptyDict)
        status_schema == Get(schema, "status", EmptyDict)
    IN  Get(Get(status_schema, "_embedded", EmptyDict), "allowedValues", <<>>)

IsStatusObject(data) == Get(data, "_type", "") = "Status"

\* The elements the loop of lines 514-519 / 559-564 decodes.
StatusObjects(allowed_values) == SelectSeq(allowed_values, IsStatusObject)

\* The loop raises KeyError when one of them lacks id or name.
AllDecode(objects) == \A i \in 1..Len(objects) : StatusDecodes(objects[i])

\* payload._embedded.status when it is a Status object (lines 567-573).
CurrentStatus(form_response) ==
    LET payload == Get(Get(form_response, "_embedded", EmptyDict), "payload", EmptyDict)
        embedded == Get(payload, "_embedded", EmptyDict)
    IN  IF "status" \in DOMAIN embedded /\ IsStatusObject(embedded["status"])
        THEN Some(embedded["status"]) ELSE None

HasId(statuses, id) == \E i \in 1..Len(statuses) : statuses[i].id = id

\* The mutant: the current status appended instead of inserted at the head.
WithCurrentAppended(statuses, current) ==
    IF HasId(statuses, current.id) THEN statuses ELSE Append(statuses, current)

\* lines 576-577
WithCurrent(statuses, current) ==
    IF HasId(statuses, current.id) THEN statuses ELSE <<current>> \o statuses

\* get_statuses on a 2xx answer: the decoded elements (lines 427-428).
CatalogElements(json) ==
    Get(Get(json, "_embedded", EmptyDict), "elements", <<>>)

\* What the try block of a lookup computes from a 2xx form answer:
\* "KeyError" when a decode raises, else the statuses list.
LookupRaises(op, form_response) ==
    \/ ~AllDecode(StatusObjects(AllowedValues(form_response)))
    \/ /\ op = "status_transitions"
       /\ CurrentStatus(form_response) # None
       /\ ~StatusDecodes(CurrentStatus(form_response)[1])

LookupStatuses(op, form_response) ==
    LET statuses == DecodeStatuses(StatusObjects(AllowedValues(form_response)))
        current == CurrentStatus(form_response)
    IN  IF op = "status_transitions" /\ current # None
        THEN WithCurrent(statuses, StatusFromHal(current[1]))
        ELSE statuses

(***************************************************************************)
(* One call of a client operation                                          *)
(***************************************************************************)
ClientIdle ==
    /\ callOp = "none"
    /\ callArgs = None
    /\ callPc = "idle"
    /\ callWire = <<>>
    /\ callForm = None
    /\ callCatalog = None
    /\ callResult = None
    /\ callError = ""
    /\ callMessage = None

\* await client.update_work_package(...) up to the await of _patch.
UpdateCall ==
    /\ UNCHANGED <<uiVars, login, decode, search>>
    /\ callPc = "idle"
    /\ \E a \in UpdateArgs :
          /\ callOp' = "update"
          /\ callArgs' = Some(a)
          /\ callWire' = Append(callWire, UpdateRequest(a))
    /\ callPc' = "patch"
    /\ UNCHANGED <<callForm, callCatalog, callResult, callError, callMessage>>

\* The PATCH is answered: _patch raises or returns, the result is decoded.
UpdateAnswered ==
    /\ UNCHANGED <<uiVars, login, decode, search>>
    /\ callPc = "patch"
    /\ \E resp \in UpdateResponses :
          IF RequestError(resp) # ""
          THEN /\ callPc' = "raised"
               /\ callError' = RequestError(resp)
               /\ callMessage' = Some(ErrorMessage("Request failed: ", resp))
               /\ UNCHANGED callResult
          ELSE IF ~WorkPackageDecodes(resp.json)
          THEN /\ callPc' = "raised"
               /\ callError' = "KeyError"
               /\ callMessage' = Some(Message("key", None, ""))
               /\ UNCHANGED callResult
          ELSE /\ callPc' = "returned"
               /\ callResult' = Some([wp |-> WorkPackageFromHal(resp.json),
                                      response |-> resp.json])
               /\ UNCHANGED <<callError, callMessage>>
    /\ UNCHANGED <<callOp, callArgs, callWire, callForm, callCatalog>>

\* get_available_statuses_for_new up to the await of the form POST.
StatusesForNewCall ==
    /\ UNCHANGED <<uiVars, login, decode, search>>
    /\ callPc = "idle"
    /\ \E a \in StatusesForNewArgs :
          /\ callOp' = "statuses_for_new"
          /\ callArgs' = Some(a)
          /\ callWire' = Append(callWire, CreateFormRequest(a.project_id, Some(a.type_id)))
    /\ callPc' = "form"
    /\ UNCHANGED <<callForm, callCatalog, callResult, callError, callMessage>>

\* get_available_status_transitions up to the await of the form POST.
StatusTransitionsCall ==
    /\ UNCHANGED <<uiVars, login, decode, search>>
    /\ callPc = "idle"
    /\ \E a \in StatusTransitionsArgs :
          /\ callOp' = "status_transitions"
          /\ callArgs' = Some(a)
          /\ callWire' = Append(callWire,
                UpdateFormRequest(a.work_package_id, a.type_id, a.lock_version))
    /\ callPc' = "form"
    /\ UNCHANGED <<callForm, callCatalog, callResult, callError, callMessage>>

\* The form POST is answered. An exception of the try block (from _post or
\* from a decode) enters the except clause, which awaits get_statuses(); an
\* empty statuses list awaits get_statuses() inside the try block.
FormAnswered ==
    /\ UNCHANGED <<uiVars, login, decode, search>>
    /\ callPc = "form"
    /\ \E resp \in FormResponses :
          /\ callForm' = Some(resp)
          /\ IF RequestError(resp) # "" \/ LookupRaises(callOp, resp.json)
             THEN /\ callPc' = "catalog_except"
                  /\ callWire' = Append(callWire, StatusesRequest)
                  /\ UNCHANGED callResult
             ELSE IF LookupStatuses(callOp, resp.json) = <<>>
             THEN /\ callPc' = "catalog_try"
                  /\ callWire' = Append(callWire, StatusesRequest)
                  /\ UNCHANGED callResult
             ELSE /\ callPc' = "returned"
                  /\ callResult' = Some(LookupStatuses(callOp, resp.json))
                  /\ UNCHANGED callWire
    /\ UNCHANGED <<callOp, callArgs, callCatalog, callError, callMessage>>

\* GET /statuses is answered. A failure inside the try block enters the
\* except clause, which awaits get_statuses() once more; a failure inside
\* the except clause leaves the call.
CatalogAnswered ==
    /\ UNCHANGED <<uiVars, login, decode, search>>
    /\ callPc \in {"catalog_try", "catalog_except"}
    /\ \E resp \in CatalogResponses :
          LET error == IF RequestError(resp) # "" THEN RequestError(resp)
                       ELSE IF ~AllDecode(CatalogElements(resp.json)) THEN "KeyError"
                       ELSE ""
          IN  /\ callCatalog' = Some(resp)
              /\ IF error = ""
                 THEN /\ callPc' = "returned"
                      /\ callResult' = Some(DecodeStatuses(CatalogElements(resp.json)))
                      /\ UNCHANGED <<callWire, callError, callMessage>>
                 ELSE IF callPc = "catalog_try"
                 THEN /\ callPc' = "catalog_except"
                      /\ callWire' = Append(callWire, StatusesRequest)
                      /\ UNCHANGED <<callResult, callError, callMessage>>
                 ELSE /\ callPc' = "raised"
                      /\ callError' = error
                      /\ callMessage' = IF error = "KeyError"
                                        THEN Some(Message("key", None, ""))
                                        ELSE Some(ErrorMessage("Request failed: ", resp))
                      /\ UNCHANGED <<callWire, callResult>>
    /\ UNCHANGED <<callOp, callArgs, callForm>>

ClientNext ==
    \/ UpdateCall
    \/ UpdateAnswered
    \/ StatusesForNewCall
    \/ StatusTransitionsCall
    \/ FormAnswered
    \/ CatalogAnswered

(***************************************************************************)
(* create_work_package (client.py 311-353)                                 *)
(***************************************************************************)
\* The JSON body create_work_package builds (lines 335-350): the optional
\* arguments are tested for truth.
CreateData(a) ==
    LET l0 == [project |-> [href |-> Some(Href("projects", a.project_id))],
               type |-> [href |-> Some(Href("types", a.type_id))]]
        l1 == IF a.assignee_id # None /\ a.assignee_id[1] # 0
              THEN Put(l0, "assignee", [href |-> Some(Href("users", a.assignee_id[1]))])
              ELSE l0
        l2 == IF a.status_id # None /\ a.status_id[1] # 0
              THEN Put(l1, "status", [href |-> Some(Href("statuses", a.status_id[1]))])
              ELSE l1
        l3 == IF a.priority_id # None /\ a.priority_id[1] # 0
              THEN Put(l2, "priority", [href |-> Some(Href("priorities", a.priority_id[1]))])
              ELSE l2
        d0 == [subject |-> a.subject, _links |-> l3]
    IN  IF a.description # None /\ a.description[1] # ""
        THEN Put(d0, "description", [raw |-> a.description[1]]) ELSE d0

\* The request create_work_package issues (line 352).
CreateRequest(a) == Request("POST", <<"work_packages">>, CreateData(a))

(***************************************************************************)
(* What the server answers to the screens                                  *)
(***************************************************************************)
\* The outcome of one awaited client call as its caller sees it: the
\* exception raised ("" when none) and the ids of the objects returned.
Returned(items) == [error |-> "", items |-> items]
Raised(error) == [error |-> error, items |-> <<>>]

Ids(seq) == [i \in 1..Len(seq) |-> seq[i].id]

\* A Type, Priority or User object as the server sends it.
NamedHal(i) == [id |-> i, name |-> "name"]

ServerError == Response(HTTP_SERVER_ERROR, EmptyDict)

\* get_types, get_priorities, get_project_members, get_statuses: a failed
\* request raises, a 2xx answer is decoded element by element.
CollectionOutcome(resp) ==
    IF RequestError(resp) # "" THEN Raised(RequestError(resp))
    ELSE IF ~AllDecode(CatalogElements(resp.json)) THEN Raised("KeyError")
    ELSE Returned(Ids(CatalogElements(resp.json)))

CollectionAnswers(idLists) ==
    {ServerError}
        \cup {Response(HTTP_OK, CollectionHal([i \in 1..Len(ids) |-> NamedHal(ids[i])])) :
                ids \in idLists}

TypesOutcomes == {CollectionOutcome(r) : r \in CollectionAnswers({<<2>>, <<1, 2>>})}
PrioritiesOutcomes == {CollectionOutcome(r) : r \in CollectionAnswers({<<1>>})}
UsersOutcomes == {CollectionOutcome(r) : r \in CollectionAnswers({<<1>>})}

\* The answers to GET /statuses and to a form POST the screens are run with.
UiCatalogAnswers ==
    {ServerError}
        \cup {Response(HTTP_OK, CollectionHal([i \in 1..Len(ids) |-> StatusHal(ids[i])])) :
                ids \in {<<>>, <<1, 2>>}}

UiFormAnswers ==
    {Response(HTTP_CONFLICT, EmptyDict)}
        \cup {Response(HTTP_OK, FormHal([i \in 1..Len(ids) |-> StatusHal(ids[i])], current)) :
                ids \in {<<>>, <<2>>, <<1, 2>>},
                current \in {None, Some(StatusHal(1))}}

CatalogOutcomes == {CollectionOutcome(r) : r \in UiCatalogAnswers}

\* One whole call of get_available_statuses_for_new or
\* get_available_status_transitions (client.py 491-584), given the answer
\* to the form POST and to the GET /statuses of the try block (c1) and of
\* the except clause (c2).
LookupOutcome(op, formAnswer, c1, c2) ==
    IF RequestError(formAnswer) # "" \/ LookupRaises(op, formAnswer.json)
    THEN CollectionOutcome(c2)
    ELSE IF LookupStatuses(op, formAnswer.json) # <<>>
    THEN Returned(Ids(LookupStatuses(op, formAnswer.json)))
    ELSE IF CollectionOutcome(c1).error = "" THEN CollectionOutcome(c1)
    ELSE CollectionOutcome(c2)

StatusesForNewOutcomes ==
    {LookupOutcome("statuses_for_new", f, c1, c2) :
        f \in UiFormAnswers, c1 \in UiCatalogAnswers, c2 \in UiCatalogAnswers}

StatusTransitionsOutcomes ==
    {LookupOutcome("status_transitions", f, c1, c2) :
        f \in UiFormAnswers, c1 \in UiCatalogAnswers, c2 \in UiCatalogAnswers}

\* _load_statuses in edit mode (work_package_form.py 254-260): the
\* transitions, or the catalog when the lookup raises.
LoadStatusesOutcomes ==
    {IF t.error # "" THEN c ELSE t : t \in StatusTransitionsOutcomes, c \in CatalogOutcomes}

\* The work packages of the project as one list fetch returns them: work
\* package 1 carries a lockVersion, work package 2 does not.
ListAnswers ==
    {ServerError}
        \cup {Response(HTTP_OK, CollectionHal(<<>>))}
        \cup {Response(HTTP_OK, CollectionHal(<<WorkPackageHal(1, Some(v)),
                                                WorkPackageHal(2, None)>>)) :
                v \in LockVersions}

\* The answers to the PATCH of work package w and to the POST of a new one.
SaveAnswers(w) ==
    {Response(HTTP_CONFLICT, EmptyDict)}
        \cup {Response(HTTP_OK, WorkPackageHal(w, IF w = 1 THEN Some(v) ELSE None)) :
                v \in LockVersions}

CreateAnswers ==
    {ServerError, Response(HTTP_OK, WorkPackageHal(2, None))}

\* [WorkPackage.from_hal_json(elem) for elem in elements]
DecodeWorkPackages(elements) ==
    [i \in 1..Len(elements) |-> WorkPackageFromHal(elements[i])]

\* The history of lock versions after the work packages wps were received.
Seen(latest, wps) ==
    [w \in DOMAIN latest |->
        IF \E i \in 1..Len(wps) : wps[i].id = w
        THEN LET i == CHOOSE i \in 1..Len(wps) : wps[i].id = w
             IN  Some(wps[i].lock_version)
        ELSE latest[w]]

(***************************************************************************)
(* The work-packages screen (screens/work_packages.py)                     *)
(***************************************************************************)
\* __init__ and on_mount up to the await of the first list fetch.
ScreenMounted ==
    [pc |-> "loading",
     work_packages |-> <<>>,
     filtered_work_packages |-> <<>>,
     selected_work_package |-> None,
     panel_visible |-> FALSE,
     panel_work_package |-> None,
     cursor_row |-> 0,
     error |-> FALSE]

\* load_work_packages up to the await of get_work_packages (lines 129-142).
StartLoad(sc) == [sc EXCEPT !.pc = "loading", !.error = FALSE]

ListRaises(resp) ==
    \/ RequestError(resp) # ""
    \/ \E i \in 1..Len(CatalogElements(resp.json)) :
          ~WorkPackageDecodes(CatalogElements(resp.json)[i])

\* load_work_packages from the answer on (lines 140-152); _update_table
\* clears the table, which puts the cursor back on the first row.
FinishLoad(sc, resp) ==
    IF ListRaises(resp)
    THEN [sc EXCEPT !.pc = "idle", !.error = TRUE]
    ELSE LET wps == DecodeWorkPackages(CatalogElements(resp.json))
         IN  [sc EXCEPT !.pc = "idle",
                        !.work_packages = wps,
                        !.filtered_work_packages = wps,
                        !.cursor_row = 0]

\* action_close_panel (lines 302-312)
ClosedPanel(sc) ==
    [sc EXCEPT !.panel_visible = FALSE,
               !.panel_work_package = None,
               !.selected_work_package = None]

\* action_select_work_package (lines 174-194)
Selected(sc) ==
    IF sc.cursor_row < Len(sc.filtered_work_packages)
    THEN LET selected_wp == sc.filtered_work_packages[sc.cursor_row + 1]
         IN  IF sc.panel_visible /\ sc.selected_work_package = Some(selected_wp)
             THEN ClosedPanel(sc)
             ELSE [sc EXCEPT !.selected_work_package = Some(selected_wp),
                             !.panel_visible = TRUE,
                             !.panel_work_package = Some(selected_wp)]
    ELSE sc

\* on_datatable_row_highlighted (lines 201-216) for the row the cursor is on.
Highlighted(sc, row) ==
    LET moved == [sc EXCEPT !.cursor_row = row]
    IN  IF 0 <= row /\ row < Len(sc.filtered_work_packages) /\ sc.panel_visible
        THEN [moved EXCEPT
                !.panel_work_package = Some(sc.filtered_work_packages[row + 1]),
                !.selected_work_package = Some(sc.filtered_work_packages[row + 1])]
        ELSE moved

\* The on_dismiss closures of action_new_work_package (lines 226-228) and of
\* action_edit_work_package (lines 321-326), called with a work package; the
\* reload they schedule runs up to its await.
Dismissed(sc, is_edit, result) ==
    IF is_edit
    THEN StartLoad([sc EXCEPT !.selected_work_package = Some(result),
                              !.panel_work_package = Some(result)])
    ELSE StartLoad(sc)

\* The mutant: the closures without their "if result" test.
OnDismissUntested(sc, is_edit, result) ==
    IF result = None THEN StartLoad(sc) ELSE Dismissed(sc, is_edit, result[1])

\* The on_dismiss closures called with the result of the form, None after
\* dismiss(None): "if result:" (lines 227, 322).
OnDismiss(sc, is_edit, result) ==
    IF result = None THEN sc ELSE Dismissed(sc, is_edit, result[1])

(***************************************************************************)
(* The create/edit form (screens/work_package_form.py)                     *)
(***************************************************************************)
\* No form is on the screen stack. error is the text of the error label,
\* error_display whether the label is displayed, request the requests of
\* the form that await their answer.
FormClosed ==
    [pc |-> "closed", shown |-> FALSE, is_edit |-> FALSE, work_package |-> None,
     types |-> <<>>, statuses |-> <<>>, priorities |-> <<>>, users |-> <<>>,
     subject |-> "", description |-> "",
     type_options |-> <<>>, type |-> None,
     status_options |-> <<>>, status |-> None, status_disabled |-> FALSE,
     priority_options |-> <<>>, priority |-> None,
     assignee_options |-> <<>>, assignee |-> None,
     error_display |-> FALSE, error |-> "", loading |-> FALSE, request |-> <<>>]

\* __init__, compose and on_mount up to the first await of load_options
\* (lines 98-108, 110-184, 194-202).
NewForm(work_package) ==
    [FormClosed EXCEPT
        !.pc = "loading",
        !.shown = TRUE,
        !.is_edit = (work_package # None),
        !.work_package = work_package,
        !.subject = IF work_package # None THEN work_package[1].subject ELSE "",
        !.description = IF work_package # None THEN work_package[1].description ELSE "",
        !.status_disabled = (work_package = None),
        !.loading = TRUE]

Range(seq) == {seq[i] : i \in 1..Len(seq)}

\* _ensure_current_type_in_list (lines 237-242)
EnsureCurrentType(f, types) ==
    IF f.is_edit /\ f.work_package # None /\ f.work_package[1].type # None
       /\ f.work_package[1].type[1] \notin Range(types)
    THEN <<f.work_package[1].type[1]>> \o types
    ELSE types

\* _populate_select_options (lines 265-283); set_options leaves a select blank.
PopulateSelectOptions(f) ==
    LET g == [f EXCEPT !.type_options = f.types, !.type = None,
                       !.priority_options = f.priorities, !.priority = None,
                       !.assignee_options = <<0>> \o f.users, !.assignee = None]
    IN  IF f.statuses # <<>>
        THEN [g EXCEPT !.status_options = f.statuses, !.status = None]
        ELSE g

\* _set_current_values (lines 285-314)
SetCurrentValues(f) ==
    LET wp == f.work_package[1]
    IN  [f EXCEPT
           !.type = IF wp.type # None /\ wp.type[1] \in Range(f.types)
                    THEN wp.type ELSE @,
           !.status = IF wp.status # None /\ wp.status[1] \in Range(f.statuses)
                      THEN wp.status ELSE @,
           !.priority = IF wp.priority # None /\ wp.priority[1] \in Range(f.priorities)
                        THEN wp.priority ELSE @,
           !.assignee = IF wp.assignee # None
                           /\ (wp.assignee[1] = 0 \/ wp.assignee[1] \in Range(f.users))
                        THEN wp.assignee ELSE @]

LoadFailed(f) ==
    [f EXCEPT !.pc = "editing", !.loading = FALSE,
              !.error_display = TRUE, !.error = "Error loading options"]

\* load_options from its first await on (lines 200-220), given what
\* get_types, get_priorities, get_project_members and _load_statuses give.
AfterLoad(f, ty, pr, us, st) ==
    IF ty.error # "" THEN LoadFailed(f)
    ELSE LET f1 == [f EXCEPT !.types = EnsureCurrentType(f, ty.items)]
         IN  IF pr.error # "" THEN LoadFailed(f1)
             ELSE LET f2 == [f1 EXCEPT !.priorities = pr.items,
                                       !.users = IF us.error # "" THEN <<>> ELSE us.items]
                  IN  IF st.error # "" THEN LoadFailed(f2)
                      ELSE LET f3 == PopulateSelectOptions([f2 EXCEPT !.statuses = st.items])
                               f4 == IF f.is_edit THEN SetCurrentValues(f3) ELSE f3
                           IN  [f4 EXCEPT !.pc = "editing", !.loading = FALSE]

\* The mutant: the current status selected without looking for it in the list.
ReloadedStatusUnchecked(f, statuses) ==
    IF f.is_edit /\ f.work_package # None /\ f.work_package[1].status # None
    THEN f.work_package[1].status
    ELSE Some(statuses[1])

\* The status on_type_changed selects in a non-empty list (lines 349-360).
ReloadedStatus(f, statuses) ==
    IF f.is_edit /\ f.work_package # None /\ f.work_package[1].status # None
    THEN IF f.work_package[1].status[1] \in Range(statuses)
         THEN f.work_package[1].status
         ELSE Some(statuses[1])
    ELSE Some(statuses[1])

\* The mutant: the status selected before is kept when it is still offered.
AfterReloadKeepingSelection(f, out) ==
    IF out.error # "" THEN [f EXCEPT !.pc = "editing", !.request = None]
    ELSE [f EXCEPT !.pc = "editing",
                   !.request = None,
                   !.statuses = out.items,
                   !.status_options = out.items,
                   !.status_disabled = IF f.is_edit THEN @ ELSE FALSE,
                   !.status = IF out.items = <<>> THEN None
                              ELSE IF f.status # None /\ f.status[1] \in Range(out.items)
                              THEN f.status ELSE Some(out.items[1])]

\* on_type_changed from the answer of the lookup on (lines 327-363).
AfterReload(f, out) ==
    IF out.error # "" THEN [f EXCEPT !.pc = "editing", !.request = None]
    ELSE [f EXCEPT !.pc = "editing",
                   !.request = None,
                   !.statuses = out.items,
                   !.status_options = out.items,
                   !.status_disabled = IF f.is_edit THEN @ ELSE FALSE,
                   !.status = IF out.items # <<>> THEN ReloadedStatus(f, out.items)
                              ELSE None]

\* The request a lookup started by on_type_changed(value) first issues.
ReloadRequest(f, value) ==
    IF f.is_edit /\ f.work_package # None
    THEN UpdateFormRequest(f.work_package[1].id, Some(value),
                           f.work_package[1].lock_version)
    ELSE CreateFormRequest(1, Some(value))

\* str.strip() on the subjects the form is run with.
Strip(s) == IF s = " " THEN "" ELSE s

\* "x if x else None" for the value of a select and for a text.
TruthyOrNone(value) == IF value # None /\ value[1] # 0 THEN value ELSE None
TextOrNone(text) == IF text # "" THEN Some(text) ELSE None

\* The mutant: the lock version passed like the other optional arguments.
SaveUpdateArgsTruthyLock(f) ==
    [work_package_id |-> f.work_package[1].id,
     subject |-> Some(Strip(f.subject)),
     description |-> TextOrNone(f.description),
     assignee_id |-> TruthyOrNone(f.assignee),
     status_id |-> TruthyOrNone(f.status),
     priority_id |-> TruthyOrNone(f.priority),
     lock_version |-> TruthyOrNone(f.work_package[1].lock_version)]

\* The arguments on_save passes to update_work_package (lines 394-402).
SaveUpdateArgs(f) ==
    [work_package_id |-> f.work_package[1].id,
     subject |-> Some(Strip(f.subject)),
     description |-> TextOrNone(f.description),
     assignee_id |-> TruthyOrNone(f.assignee),
     status_id |-> TruthyOrNone(f.status),
     priority_id |-> TruthyOrNone(f.priority),
     lock_version |-> f.work_package[1].lock_version]

\* The arguments on_save passes to create_work_package (lines 406-414).
SaveCreateArgs(f) ==
    [project_id |-> 1,
     subject |-> Strip(f.subject),
     type_id |-> f.type[1],
     description |-> TextOrNone(f.description),
     assignee_id |-> TruthyOrNone(f.assignee),
     status_id |-> TruthyOrNone(f.status),
     priority_id |-> TruthyOrNone(f.priority)]

\* The mutant: on_save without the test of the type.
SavingTypeUnchecked(f) ==
    IF Strip(f.subject) = ""
    THEN [f EXCEPT !.error_display = TRUE, !.error = "Subject is required"]
    ELSE [f EXCEPT !.error_display = FALSE,
                   !.pc = "submitting",
                   !.request = IF f.is_edit /\ f.work_package # None
                               THEN Append(@, UpdateRequest(SaveUpdateArgs(f)))
                               ELSE Append(@, CreateRequest([SaveCreateArgs(f) EXCEPT
                                                                !.type_id = 0]))]

\* on_save up to the await of the client call (lines 368-414).
Saving(f) ==
    IF Strip(f.subject) = ""
    THEN [f EXCEPT !.error_display = TRUE, !.error = "Subject is required"]
    ELSE IF f.type = None \/ f.type[1] = 0
    THEN [f EXCEPT !.error_display = TRUE, !.error = "Type is required"]
    ELSE [f EXCEPT !.error_display = FALSE,
                   !.pc = "submitting",
                   !.request = IF f.is_edit /\ f.work_package # None
                               THEN Append(@, UpdateRequest(SaveUpdateArgs(f)))
                               ELSE Append(@, CreateRequest(SaveCreateArgs(f)))]

\* The mutant: the except clause of on_save without the error label.
SaveFailedSilently(f) ==
    [f EXCEPT !.pc = "editing", !.request = None]

\* on_save from a raised create or update on (lines 417-419).
SaveFailed(f) ==
    [f EXCEPT !.pc = "editing", !.request = None,
              !.error_display = TRUE, !.error = "Error saving"]

SubjectInputs == {" ", "Task"}

(***************************************************************************)
(* The decoders of models.py.  A text is a sequence of pieces; "/" and the *)
(* ten digits are pieces of one character, any other piece stands for a    *)
(* run of characters that are neither.                                     *)
(***************************************************************************)
Digits == <<"0", "1", "2", "3", "4", "5", "6", "7", "8", "9">>

IsDigit(c) == \E d \in 1..10 : Digits[d] = c

DigitValue(c) == (CHOOSE d \in 1..10 : Digits[d] = c) - 1

\* str(n)
RECURSIVE Decimal(_)
Decimal(n) ==
    IF n < 10 THEN <<Digits[n + 1]>>
    ELSE Decimal(n \div 10) \o <<Digits[(n % 10) + 1]>>

\* href.rstrip("/")
RECURSIVE RStrip(_)
RStrip(text) ==
    IF text # <<>> /\ text[Len(text)] = "/" THEN RStrip(SubSeq(text, 1, Len(text) - 1))
    ELSE text

\* text.split("/")[-1]
RECURSIVE LastPart(_)
LastPart(text) ==
    IF text = <<>> \/ text[Len(text)] = "/" THEN <<>>
    ELSE Append(LastPart(SubSeq(text, 1, Len(text) - 1)), text[Len(text)])

\* int(part) for a part made of the pieces above: None stands for ValueError.
RECURSIVE ParseInt(_)
ParseInt(part) ==
    IF part = <<>> \/ ~IsDigit(part[Len(part)]) THEN None
    ELSE IF Len(part) = 1 THEN Some(DigitValue(part[1]))
    ELSE LET front == ParseInt(SubSeq(part, 1, Len(part) - 1))
         IN  IF front = None THEN None
             ELSE Some(front[1] * 10 + DigitValue(part[Len(part)]))

\* _extract_id_from_href; a null href is the empty text here.
ExtractIdFromHref(href) ==
    IF href = <<>> THEN None ELSE ParseInt(LastPart(RStrip(href)))

\* A display name: a text the server sent, or f"{Kind} {id}".
Text(t) == [text |-> t, n |-> None]
Synthesized(kind, id) == [text |-> kind, n |-> Some(id)]

\* bool(d) of a dict or None
Truthy(d) == DOMAIN d # {}

\* dict.get(k) of a value that may be null
OptGet(d, k) == IF k \in DOMAIN d THEN Some(d[k]) ELSE None

Kinds == {"Status", "Type", "Priority", "User", "Project"}

\* from_hal_json raises KeyError unless these keys are present.
RequiredKeys(kind) ==
    CASE kind = "User" -> {"id"}
      [] kind = "WorkPackage" -> {"id", "subject"}
      [] OTHER -> {"id", "name"}

EntityDecodes(kind, data) == RequiredKeys(kind) \subseteq DOMAIN data

\* Status/Type/Priority/User/Project.from_hal_json on data that decodes.
EntityFromHal(kind, data) ==
    CASE kind \in {"Status", "Type"} ->
            [id |-> data["id"], name |-> data["name"], color |-> OptGet(data, "color")]
      [] kind = "Priority" ->
            [id |-> data["id"], name |-> data["name"]]
      [] kind = "User" ->
            [id |-> data["id"], name |-> Get(data, "name", Text("")),
             email |-> OptGet(data, "email"), avatar_url |-> OptGet(data, "avatar")]
      [] kind = "Project" ->
            [id |-> data["id"], identifier |-> Get(data, "identifier", ""),
             name |-> data["name"], active |-> Get(data, "active", TRUE),
             public |-> Get(data, "public", FALSE)]

\* The entity the _parse_* methods build from a link.
LinkEntity(kind, id, link_data) ==
    LET name == Get(link_data, "title", Synthesized(kind, id))
    IN  CASE kind \in {"Status", "Type"} -> [id |-> id, name |-> name, color |-> None]
          [] kind = "Priority" -> [id |-> id, name |-> name]
          [] kind = "User" ->
                [id |-> id, name |-> name, email |-> None, avatar_url |-> None]
          [] kind = "Project" ->
                [id |-> id, identifier |-> "", name |-> name, active |-> TRUE,
                 public |-> FALSE]

\* _parse_status, _parse_type, _parse_priority, _parse_project, _parse_user
\* raise when the embedded object does not decode.
RelationRaises(kind, embedded_data) ==
    Truthy(embedded_data) /\ ~EntityDecodes(kind, embedded_data)

\* What they return otherwise.  "if x_id := ..." is a truth test of the id.
ParseRelation(kind, embedded_data, link_data) ==
    IF Truthy(embedded_data) THEN Some(EntityFromHal(kind, embedded_data))
    ELSE IF Truthy(link_data)
    THEN LET id == ExtractIdFromHref(Get(link_data, "href", <<>>))
         IN  IF id # None /\ id[1] # 0 THEN Some(LinkEntity(kind, id[1], link_data))
             ELSE None
    ELSE None

Relations == {"status", "type", "priority", "project", "author", "assignee"}

KindOf(rel) ==
    CASE rel = "status" -> "Status"
      [] rel = "type" -> "Type"
      [] rel = "priority" -> "Priority"
      [] rel = "project" -> "Project"
      [] OTHER -> "User"

Collection(kind) ==
    CASE kind = "Status" -> "statuses"
      [] kind = "Type" -> "types"
      [] kind = "Priority" -> "priorities"
      [] kind = "Project" -> "projects"
      [] OTHER -> "users"

\* f"/api/v3/{collection}/{n}"
HrefText(collection, n) == <<"/", "api", "/", "v3", "/", collection, "/">> \o Decimal(n)

\* embedded.get(rel), links.get(rel) of a work package
EmbeddedOf(data, rel) == Get(Get(data, "_embedded", EmptyDict), rel, EmptyDict)
LinkOf(data, rel) == Get(Get(data, "_links", EmptyDict), rel, EmptyDict)

\* WorkPackage.from_hal_json raises KeyError when a relation's embedded object
\* or the work package itself lacks a required key.
WorkPackageRaises(data) ==
    \/ ~EntityDecodes("WorkPackage", data)
    \/ \E rel \in Relations : RelationRaises(KindOf(rel), EmbeddedOf(data, rel))

\* The relation fields of the decoded work package.
WorkPackageRelations(data) ==
    [rel \in Relations |->
        ParseRelation(KindOf(rel), EmbeddedOf(data, rel), LinkOf(data, rel))]

\* ---- the inputs ----
FullHal(kind) == [id |-> 1, name |-> Text("Full")]

Titled(href) == [href |-> href, title |-> Text("Linked")]

\* The ways one relation of a work package is supplied: not at all, embedded,
\* as a link to id 2, to id 0, or to /users/me.
Sources(kind) ==
    {[embedded |-> EmptyDict, link |-> EmptyDict],
     [embedded |-> FullHal(kind), link |-> EmptyDict],
     [embedded |-> EmptyDict, link |-> Titled(HrefText(Collection(kind), 2))],
     [embedded |-> EmptyDict, link |-> Titled(HrefText(Collection(kind), 0))],
     [embedded |-> EmptyDict,
      link |-> Titled(<<"/", "api", "/", "v3", "/", Collection(kind), "/", "me">>)]}

\* More ways, for a relation decoded alone.
LinkIds == {0, 1, 10}

LinkInputs(kind) ==
    {EmptyDict, [href |-> <<>>, title |-> Text("Linked")]}
        \cup {Titled(HrefText(Collection(kind), n)) : n \in LinkIds}
        \cup {[href |-> HrefText(Collection(kind), n)] : n \in LinkIds}
        \cup {Titled(HrefText(Collection(kind), n) \o <<"/">>) : n \in LinkIds}
        \cup {Titled(<<"/", "api", "/", "v3", "/", Collection(kind), "/", "me">>),
              Titled(<<"/">>)}

EmbeddedInputs(kind) ==
    {EmptyDict, FullHal(kind), [id |-> 0, name |-> Text("Linked")],
     [id |-> 10, name |-> Text("Linked")], [id |-> 1], [name |-> Text("Full")]}

\* The data handed to an entity decoder: any choice of the keys it reads.
EntityKeys(kind) ==
    CASE kind \in {"Status", "Type"} -> {"id", "name", "color"}
      [] kind = "Priority" -> {"id", "name"}
      [] kind = "User" -> {"id", "name", "email"}
      [] kind = "Project" -> {"id", "name", "identifier"}
      [] OTHER -> {"id", "subject", "lockVersion"}

EntityValue(key) ==
    CASE key \in {"id", "lockVersion"} -> 1
      [] key \in {"name", "subject"} -> Text("Full")
      [] OTHER -> "x"

EntityInputs(kind) ==
    {[k \in keys |-> EntityValue(k)] : keys \in SUBSET EntityKeys(kind)}

WorkPackageInput(src) ==
    [id |-> 1, subject |-> Text("Task"),
     _embedded |-> [rel \in {r \in Relations : Truthy(src[r].embedded)}
                        |-> src[rel].embedded],
     _links |-> [rel \in {r \in Relations : Truthy(src[r].link)} |-> src[rel].link]]

\* ---- estimatedTime ----
MaxDuration == 11

StartsWith(text, prefix) ==
    Len(text) >= Len(prefix) /\ SubSeq(text, 1, Len(prefix)) = prefix

Contains(text, c) == \E i \in 1..Len(text) : text[i] = c

\* text.split(c)[0] of a text that contains c
SplitHead(text, c) ==
    SubSeq(text, 1, (CHOOSE i \in 1..Len(text) :
                        text[i] = c /\ \A j \in 1..(i - 1) : text[j] # c) - 1)

\* text.split(c)[1] of a text that contains c
SplitSecond(text, c) ==
    LET first == Len(SplitHead(text, c)) + 1
        tail == SubSeq(text, first + 1, Len(text))
    IN  IF Contains(tail, c) THEN SplitHead(tail, c) ELSE tail

\* f"PT{h}H{m}M", f"PT{h}H", f"PT{m}M"
HoursMinutes(h, m) == <<"P", "T">> \o Decimal(h) \o <<"H">> \o Decimal(m) \o <<"M">>
HoursOnly(h) == <<"P", "T">> \o Decimal(h) \o <<"H">>
MinutesOnly(m) == <<"P", "T">> \o Decimal(m) \o <<"M">>

\* The hours part and the minutes part _parse_iso_duration hands to float().
HoursPart(duration) == SplitHead(SubSeq(duration, 3, Len(duration)), "H")

AfterHours(duration) ==
    LET rest == SubSeq(duration, 3, Len(duration))
    IN  IF Contains(rest, "H") THEN SplitSecond(rest, "H") ELSE rest

MinutesPart(duration) == SplitHead(AfterHours(duration), "M")

HasHours(duration) == Contains(SubSeq(duration, 3, Len(duration)), "H")
HasMinutes(duration) == Contains(AfterHours(duration), "M")

\* float() raises ValueError on a part that is no numeral.
DurationRaises(duration) ==
    /\ StartsWith(duration, <<"P", "T">>)
    /\ \/ HasHours(duration) /\ ParseInt(HoursPart(duration)) = None
       \/ HasMinutes(duration) /\ ParseInt(MinutesPart(duration)) = None

\* The mutant: the minutes are added as they are, not as sixtieths.
ParseIsoDurationUnscaled(duration) ==
    IF ~StartsWith(duration, <<"P", "T">>) THEN 0
    ELSE (IF HasHours(duration) THEN 60 * ParseInt(HoursPart(duration))[1] ELSE 0)
         + (IF HasMinutes(duration) THEN 60 * ParseInt(MinutesPart(duration))[1] ELSE 0)

\* _parse_iso_duration: hours + minutes / 60.0, counted here in minutes
\* (sixtieths of an hour) so that the value is exact.
ParseIsoDuration(duration) ==
    IF ~StartsWith(duration, <<"P", "T">>) THEN 0
    ELSE (IF HasHours(duration) THEN 60 * ParseInt(HoursPart(duration))[1] ELSE 0)
         + (IF HasMinutes(duration) THEN ParseInt(MinutesPart(duration))[1] ELSE 0)

\* from_hal_json: "if estimated_time := data.get('estimatedTime')"; null and
\* the empty text are both <<>> here.
EstimatedHours(data) ==
    IF Get(data, "estimatedTime", <<>>) = <<>> THEN None
    ELSE Some(ParseIsoDuration(data["estimatedTime"]))

DurationInputs ==
    {<<>>, <<"P", "1", "D">>, <<"P", "T">>, <<"P", "T", "H">>, <<"P", "T", "x", "M">>}
        \cup {HoursMinutes(h, m) : h \in 0..MaxDuration, m \in 0..MaxDuration}
        \cup {HoursOnly(h) : h \in 0..MaxDuration}
        \cup {MinutesOnly(m) : m \in 0..MaxDuration}

DecodeIdle ==
    [op |-> "none", kind |-> "", data |-> EmptyDict, raised |-> FALSE, result |-> None]

\* WorkPackage.from_hal_json on a work package with id and subject.
DecodeWorkPackage ==
    /\ decode.op = "none"
    /\ \E st \in Sources("Status"), ty \in Sources("Type"), pr \in Sources("Priority"),
          pj \in Sources("Project"), au \in Sources("User"), asg \in Sources("User") :
          LET src == [status |-> st, type |-> ty, priority |-> pr, project |-> pj,
                      author |-> au, assignee |-> asg]
              data == WorkPackageInput(src)
          IN  decode' = [op |-> "work_package", kind |-> "WorkPackage", data |-> data,
                         raised |-> WorkPackageRaises(data),
                         result |-> IF WorkPackageRaises(data) THEN None
                                    ELSE Some(WorkPackageRelations(data))]
    /\ UNCHANGED <<clientVars, uiVars, login, search>>

\* One of the _parse_* methods.
DecodeRelation ==
    /\ decode.op = "none"
    /\ \E kind \in Kinds :
       \E embedded_data \in EmbeddedInputs(kind), link_data \in LinkInputs(kind) :
          decode' = [op |-> "relation", kind |-> kind,
                     data |-> [embedded |-> embedded_data, link |-> link_data],
                     raised |-> RelationRaises(kind, embedded_data),
                     result |-> IF RelationRaises(kind, embedded_data) THEN None
                                ELSE ParseRelation(kind, embedded_data, link_data)]
    /\ UNCHANGED <<clientVars, uiVars, login, search>>

\* One of the from_hal_json methods.
DecodeEntity ==
    /\ decode.op = "none"
    /\ \E kind \in Kinds \cup {"WorkPackage"} :
       \E data \in EntityInputs(kind) :
          decode' = [op |-> "entity", kind |-> kind, data |-> data,
                     raised |-> ~EntityDecodes(kind, data),
                     result |-> IF ~EntityDecodes(kind, data) THEN None
                                ELSE IF kind = "WorkPackage"
                                THEN Some([id |-> data["id"], subject |-> data["subject"]])
                                ELSE Some(EntityFromHal(kind, data))]
    /\ UNCHANGED <<clientVars, uiVars, login, search>>

\* WorkPackage.from_hal_json, the estimated time of a work package.
DecodeDuration ==
    /\ decode.op = "none"
    /\ \E data \in {EmptyDict} \cup {[estimatedTime |-> d] : d \in DurationInputs} :
          LET raises == Get(data, "estimatedTime", <<>>) # <<>>
                            /\ DurationRaises(data["estimatedTime"])
          IN  decode' = [op |-> "duration", kind |-> "WorkPackage", data |-> data,
                         raised |-> raises,
                         result |-> IF raises THEN None ELSE EstimatedHours(data)]
    /\ UNCHANGED <<clientVars, uiVars, login, search>>

DecodeNext ==
    \/ DecodeDuration
    \/ DecodeWorkPackage
    \/ DecodeRelation
    \/ DecodeEntity

(***************************************************************************)
(* The search of the projects screen and of the work-packages screen       *)
(* (main.py 89-190, work_packages.py 127-152, 232-276).  A text is a       *)
(* sequence of characters.                                                 *)
(***************************************************************************)
\* c.lower()
LowerChar(c) == CASE c = "A" -> "a" [] c = "B" -> "b" [] OTHER -> c

\* text.lower()
Lower(text) == [i \in 1..Len(text) |-> LowerChar(text[i])]

\* query in text
In(query, text) ==
    \E i \in 0..(Len(text) - Len(query)) : SubSeq(text, i + 1, i + Len(query)) = query

\* The mutant: the item's texts compared as they are.
ItemMatchesCaseSensitive(kind, search_query, item) ==
    IF kind = "projects"
    THEN In(search_query, item.name) \/ In(search_query, item.identifier)
    ELSE \/ In(search_query, item.subject)
         \/ item.status # None /\ In(search_query, item.status[1])
         \/ item.assignee # None /\ In(search_query, item.assignee[1])

\* The condition of the list comprehension in _update_table.
ItemMatches(kind, search_query, item) ==
    IF kind = "projects"
    THEN In(search_query, Lower(item.name)) \/ In(search_query, Lower(item.identifier))
    ELSE \/ In(search_query, Lower(item.subject))
         \/ item.status # None /\ In(search_query, Lower(item.status[1]))
         \/ item.assignee # None /\ In(search_query, Lower(item.assignee[1]))

RECURSIVE FilterItems(_, _, _)
FilterItems(kind, search_query, items) ==
    IF items = <<>> THEN <<>>
    ELSE (IF ItemMatches(kind, search_query, Head(items)) THEN <<Head(items)>> ELSE <<>>)
         \o FilterItems(kind, search_query, Tail(items))

\* _update_table, the list it leaves in filtered_projects or
\* filtered_work_packages.
UpdateTable(sc) ==
    [sc EXCEPT !.filtered = IF sc.search_query # <<>>
                            THEN FilterItems(sc.kind, sc.search_query, sc.items)
                            ELSE sc.items]

SearchProjects ==
    <<[id |-> 1, name |-> <<"A", "b">>, identifier |-> <<"b">>],
      [id |-> 2, name |-> <<"B">>, identifier |-> <<"a", "a">>],
      [id |-> 3, name |-> <<"b", "A">>, identifier |-> <<>>]>>

SearchWorkPackages ==
    <<[id |-> 1, subject |-> <<"A", "b">>, status |-> Some(<<"B">>), assignee |-> None],
      [id |-> 2, subject |-> <<"b">>, status |-> None, assignee |-> Some(<<"a", "A">>)],
      [id |-> 3, subject |-> <<"B", "a">>, status |-> Some(<<"a">>),
       assignee |-> Some(<<>>)]>>

\* The lists a load can bring.
SearchLists(kind) ==
    LET all == IF kind = "projects" THEN SearchProjects ELSE SearchWorkPackages
    IN  {<<>>, all, <<all[3], all[1]>>, <<all[2]>>}

\* What the user can have typed into the search input.
SearchInputs ==
    {<<>>, <<"a">>, <<"A">>, <<"b">>, <<"a", "b">>, <<"A", "B">>, <<"B", "a">>, <<"a", "a">>}

\* MainScreen.__init__, WorkPackagesScreen.__init__ and their on_mount up to
\* the await of the first load.
SearchMounted(kind) ==
    [kind |-> kind, pc |-> "loading", items |-> <<>>, filtered |-> <<>>,
     search_query |-> <<>>, value |-> <<>>, hidden |-> TRUE, error |-> FALSE]

SearchUnused == [SearchMounted("none") EXCEPT !.pc = "idle"]

\* action_refresh up to the await of the fetch.
SearchRefresh ==
    /\ search.pc = "idle"
    /\ search' = [search EXCEPT !.pc = "loading", !.error = FALSE]
    /\ UNCHANGED <<clientVars, uiVars, login, decode>>

\* load_projects / load_work_packages from the await to the end.
SearchLoaded ==
    /\ search.pc = "loading"
    /\ \/ \E items \in SearchLists(search.kind) :
            search' = UpdateTable([search EXCEPT !.pc = "idle", !.items = items,
                                                 !.filtered = items])
       \/ search' = [search EXCEPT !.pc = "idle", !.error = TRUE]
    /\ UNCHANGED <<clientVars, uiVars, login, decode>>

\* action_toggle_search
SearchToggle ==
    /\ search' = IF ~search.hidden
                 THEN UpdateTable([search EXCEPT !.hidden = TRUE, !.value = <<>>,
                                                 !.search_query = <<>>])
                 ELSE [search EXCEPT !.hidden = FALSE]
    /\ UNCHANGED <<clientVars, uiVars, login, decode>>

\* on_input_changed: the user edits the search input.
SearchInputChanged ==
    /\ ~search.hidden
    /\ \E value \in SearchInputs :
          search' = UpdateTable([search EXCEPT !.value = value,
                                               !.search_query = Lower(value)])
    /\ UNCHANGED <<clientVars, uiVars, login, decode>>

SearchNext ==
    \/ SearchRefresh
    \/ SearchLoaded
    \/ SearchToggle
    \/ SearchInputChanged

(***************************************************************************)
(* The login screen.  An address is the sequence of its path segments; an  *)
(* empty last segment stands for a trailing slash.                         *)
(***************************************************************************)
MaxLogins == 2

ApiSuffix == <<"api", "v3">>

EndsWithApi(url) ==
    Len(url) >= 2 /\ SubSeq(url, Len(url) - 1, Len(url)) = ApiSuffix

RECURSIVE RStripSlash(_)
RStripSlash(url) ==
    IF url # <<>> /\ url[Len(url)] = "" THEN RStripSlash(SubSeq(url, 1, Len(url) - 1))
    ELSE url

\* handle_login: "Ensure URL ends with /api/v3".
NormalizeUrl(url) == IF EndsWithApi(url) THEN url ELSE RStripSlash(url) \o ApiSuffix

UrlInputs == {<<>>, <<"host">>, <<"host", "">>, <<"host", "api", "v3">>}

KeyInputs == {"", " ", "key"}

LoginAnswers == {Response(HTTP_OK, EmptyDict)} \cup FailedResponses

\* The login screen after on_mount; opened and closed count the clients
\* handle_login has constructed and closed.
LoginMounted ==
    [pc |-> "editing", api_url |-> <<>>, api_key |-> "", error |-> "",
     error_visible |-> FALSE, probe_url |-> <<>>, opened |-> 0, closed |-> 0,
     probe |-> "", config |-> None, env_file |-> None]

\* app.on_mount with a configuration: the login screen is never pushed.
LoginSkipped == [LoginMounted EXCEPT !.pc = "main"]

LoginRejected(l, text) ==
    [l EXCEPT !.pc = "editing", !.error = text, !.error_visible = TRUE]

\* handle_login's except branches for test_connection: the label is
\* written, the client made for the probe is left as it is.
LoginProbeFailed(l, resp) ==
    LoginRejected(l, IF ConnectionError(resp) = "AuthenticationError"
                     THEN "Authentication failed" ELSE "Connection failed")

\* The user types into the two inputs.
LoginInput ==
    /\ login.pc = "editing"
    /\ \E url \in UrlInputs, key \in KeyInputs :
          login' = [login EXCEPT !.api_url = url, !.api_key = key]
    /\ UNCHANGED <<clientVars, uiVars, decode, search>>

\* The login button: handle_login up to the await of test_connection.
LoginPressed ==
    /\ login.pc = "editing"
    /\ login.opened < MaxLogins
    /\ LET cleared == [login EXCEPT !.error_visible = FALSE]
       IN  IF login.api_url = <<>> \/ Strip(login.api_key) = ""
           THEN login' = LoginRejected(cleared, "Please fill in all fields")
           ELSE login' = [cleared EXCEPT !.pc = "probing",
                                         !.probe_url = NormalizeUrl(login.api_url),
                                         !.opened = @ + 1]
    /\ UNCHANGED <<clientVars, uiVars, decode, search>>

\* test_connection is answered: handle_login from the await to its end.
\* config.api_url and config.api_key are assigned, then _save_config writes
\* the .env file, which may fail.
LoginAnswered ==
    /\ login.pc = "probing"
    /\ \E resp \in LoginAnswers, saved \in BOOLEAN :
          IF ConnectionError(resp) # ""
          THEN login' = [LoginProbeFailed(login, resp) EXCEPT
                            !.probe = ConnectionError(resp)]
          ELSE LET stored == <<login.probe_url, Strip(login.api_key)>>
                   closed == [login EXCEPT !.closed = @ + 1, !.probe = "ok",
                                           !.config = Some(stored)]
               IN  login' = IF saved
                            THEN [closed EXCEPT !.pc = "main", !.env_file = Some(stored)]
                            ELSE LoginRejected(closed, "Unexpected error")
    /\ UNCHANGED <<clientVars, uiVars, decode, search>>

LoginNext ==
    \/ LoginInput
    \/ LoginPressed
    \/ LoginAnswered


(***************************************************************************)
(* The handlers of the two screens. The handlers of one screen run one     *)
(* after the other; the bindings of the work-packages screen are inactive  *)
(* while the modal form is shown.                                          *)
(***************************************************************************)
UiInit ==
    /\ screen = ScreenMounted
    /\ form = FormClosed
    /\ formLookup = None
    /\ latestSeen = [w \in WPIds |-> None]

AtList == screen.pc = "idle" /\ form.pc = "closed"

\* get_work_packages is answered: the rest of load_work_packages.
LoadAnswered ==
    /\ screen.pc = "loading"
    /\ \E resp \in ListAnswers :
          /\ screen' = FinishLoad(screen, resp)
          /\ latestSeen' = IF ListRaises(resp) THEN latestSeen
                           ELSE Seen(latestSeen, DecodeWorkPackages(CatalogElements(resp.json)))
    /\ UNCHANGED <<form, formLookup, clientVars, login, decode, search>>

\* action_refresh up to the await.
Refresh ==
    /\ AtList
    /\ screen' = StartLoad(screen)
    /\ UNCHANGED <<form, formLookup, latestSeen, clientVars, login, decode, search>>

\* The cursor of the table comes to stand on a row and RowHighlighted is
\* handled.
RowHighlighted ==
    /\ AtList
    /\ \E row \in 0..(Len(screen.filtered_work_packages) - 1) :
          screen' = Highlighted(screen, row)
    /\ UNCHANGED <<form, formLookup, latestSeen, clientVars, login, decode, search>>

\* Enter on the table: on_datatable_row_selected, action_select_work_package.
SelectWorkPackage ==
    /\ AtList
    /\ screen' = Selected(screen)
    /\ UNCHANGED <<form, formLookup, latestSeen, clientVars, login, decode, search>>

ClosePanel ==
    /\ AtList
    /\ screen' = ClosedPanel(screen)
    /\ UNCHANGED <<form, formLookup, latestSeen, clientVars, login, decode, search>>

\* action_edit_work_package (lines 314-330): the form is pushed and mounted.
EditWorkPackage ==
    /\ AtList
    /\ screen.selected_work_package # None
    /\ form' = NewForm(screen.selected_work_package)
    /\ formLookup' = None
    /\ UNCHANGED <<screen, latestSeen, clientVars, login, decode, search>>

\* action_new_work_package (lines 222-230)
NewWorkPackage ==
    /\ AtList
    /\ form' = NewForm(None)
    /\ formLookup' = None
    /\ UNCHANGED <<screen, latestSeen, clientVars, login, decode, search>>

\* A handler of the form resumes with its answer and takes the form from f
\* to g. Nothing in the handlers asks whether the form is still on the
\* screen stack: on a dismissed form they run as they do on a shown one.
Resumed(f, g) == IF f.shown THEN g ELSE [g EXCEPT !.pc = "abandoned"]

\* The calls of load_options are answered; the handler goes on whether or
\* not the form was dismissed meanwhile.
FormLoaded ==
    /\ form.pc = "loading"
    /\ \E ty \in TypesOutcomes, pr \in PrioritiesOutcomes, us \in UsersOutcomes,
          st \in (IF form.is_edit THEN LoadStatusesOutcomes ELSE {Returned(<<>>)}) :
            form' = Resumed(form, AfterLoad(form, ty, pr, us, st))
    /\ formLookup' = None
    /\ UNCHANGED <<screen, latestSeen, clientVars, login, decode, search>>

\* The mutant: a handler started while another one awaits its answer.
FormShown == form.shown

\* The handlers of the form run one at a time in the message pump of the
\* screen: an event that arrives while a handler awaits an answer is
\* handled when that handler has finished.
FormEditing == form.pc = "editing" /\ form.shown

FormInputSubject ==
    /\ FormEditing
    /\ \E s \in SubjectInputs : form' = [form EXCEPT !.subject = s]
    /\ formLookup' = None
    /\ UNCHANGED <<screen, latestSeen, clientVars, login, decode, search>>

FormSelectStatus ==
    /\ FormEditing
    /\ ~form.status_disabled
    /\ \E v \in Opt(Range(form.status_options)) : form' = [form EXCEPT !.status = v]
    /\ formLookup' = None
    /\ UNCHANGED <<screen, latestSeen, clientVars, login, decode, search>>

FormSelectPriority ==
    /\ FormEditing
    /\ \E v \in Opt(Range(form.priority_options)) : form' = [form EXCEPT !.priority = v]
    /\ formLookup' = None
    /\ UNCHANGED <<screen, latestSeen, clientVars, login, decode, search>>

FormSelectAssignee ==
    /\ FormEditing
    /\ \E v \in Opt(Range(form.assignee_options)) : form' = [form EXCEPT !.assignee = v]
    /\ formLookup' = None
    /\ UNCHANGED <<screen, latestSeen, clientVars, login, decode, search>>

\* The type select changes: on_type_changed up to the await of the lookup
\* (lines 320-336). A blank value starts no lookup.
FormTypeChanged ==
    /\ FormEditing
    /\ \E v \in Opt(Range(form.type_options)) :
          form' = IF v # None /\ v[1] # 0
                  THEN [form EXCEPT !.type = v, !.pc = "reloading",
                                    !.request = Append(@, ReloadRequest(form, v[1]))]
                  ELSE [form EXCEPT !.type = v]
    /\ formLookup' = None
    /\ UNCHANGED <<screen, latestSeen, clientVars, login, decode, search>>

\* The lookup of on_type_changed is answered.
FormTypeReloaded ==
    /\ form.pc = "reloading"
    /\ \E out \in (IF form.is_edit /\ form.work_package # None
                   THEN StatusTransitionsOutcomes ELSE StatusesForNewOutcomes) :
          /\ form' = Resumed(form, AfterReload(form, out))
          /\ formLookup' = IF form.shown
                           THEN Some([call |-> "reload", request |-> form.request[1],
                                      previous |-> form.status, outcome |-> out])
                           ELSE None
    /\ UNCHANGED <<screen, latestSeen, clientVars, login, decode, search>>

\* The save button: on_save up to the await of the client call.
FormSave ==
    /\ FormEditing
    /\ form' = Saving(form)
    /\ formLookup' = None
    /\ UNCHANGED <<screen, latestSeen, clientVars, login, decode, search>>

\* The PATCH or POST of on_save is answered (lines 394-419): the form is
\* dismissed with the decoded work package, or shows the error and stays.
FormSaveAnswered ==
    /\ form.pc = "submitting"
    /\ \E resp \in (IF form.is_edit THEN SaveAnswers(form.work_package[1].id)
                    ELSE CreateAnswers) :
          IF RequestError(resp) # "" \/ ~WorkPackageDecodes(resp.json)
          THEN /\ form' = Resumed(form, SaveFailed(form))
               /\ formLookup' = Some([call |-> "save", shown |-> form.shown,
                                      request |-> form.request[1],
                                      outcome |-> Raised(IF RequestError(resp) # ""
                                                         THEN RequestError(resp)
                                                         ELSE "KeyError")])
               /\ UNCHANGED <<screen, latestSeen>>
          ELSE /\ form' = IF form.shown THEN FormClosed
                          ELSE Resumed(form, [form EXCEPT !.request = <<>>])
               /\ formLookup' = Some([call |-> "save", shown |-> form.shown,
                                      request |-> form.request[1],
                                      outcome |-> Returned(<<WorkPackageFromHal(resp.json)>>)])
               /\ latestSeen' = Seen(latestSeen, <<WorkPackageFromHal(resp.json)>>)
               /\ screen' = IF form.shown
                            THEN OnDismiss(screen, form.is_edit,
                                           Some(WorkPackageFromHal(resp.json)))
                            ELSE screen
    /\ UNCHANGED <<clientVars, login, decode, search>>

\* The dismissed form object, once its last handler has finished, is dropped.
FormDropped ==
    /\ form.pc = "abandoned"
    /\ form' = FormClosed
    /\ formLookup' = None
    /\ UNCHANGED <<screen, latestSeen, clientVars, login, decode, search>>

\* The cancel button or escape: on_cancel, action_cancel (dismiss(None)).
FormCancel ==
    /\ form.shown
    /\ form' = IF form.pc \in {"loading", "reloading", "submitting"}
               THEN [form EXCEPT !.shown = FALSE]
               ELSE FormClosed
    /\ screen' = OnDismiss(screen, form.is_edit, None)
    /\ formLookup' = Some([call |-> "cancel", request |-> form.request,
                           outcome |-> Returned(<<>>)])
    /\ UNCHANGED <<latestSeen, clientVars, login, decode, search>>

UiNext ==
    \/ LoadAnswered
    \/ Refresh
    \/ RowHighlighted
    \/ SelectWorkPackage
    \/ ClosePanel
    \/ EditWorkPackage
    \/ NewWorkPackage
    \/ FormLoaded
    \/ FormInputSubject
    \/ FormSelectStatus
    \/ FormSelectPriority
    \/ FormSelectAssignee
    \/ FormTypeChanged
    \/ FormTypeReloaded
    \/ FormSave
    \/ FormSaveAnswered
    \/ FormDropped
    \/ FormCancel

\* The work-packages screen has been pushed; no client call is modelled
\* step by step.
Init == ClientIdle /\ UiInit /\ login = LoginSkipped /\ decode = DecodeIdle /\ search = SearchUnused

Spec == Init /\ [][UiNext]_vars

\* One session of the form: the form has just been pushed by
\* action_edit_work_package on a work package of the loaded list, or by
\* action_new_work_package.
FormOpened ==
    \E resp \in ListAnswers, row \in 0..1, edit \in BOOLEAN :
        LET loaded == FinishLoad(ScreenMounted, resp)
            shown == Selected(Highlighted(loaded, row))
        IN  /\ ~ListRaises(resp)
            /\ IF edit THEN row < Len(loaded.filtered_work_packages) ELSE row = 0
            /\ screen = IF edit THEN shown ELSE loaded
            /\ form = NewForm(IF edit THEN shown.selected_work_package ELSE None)
            /\ formLookup = None
            /\ latestSeen = Seen([w \in WPIds |-> None], loaded.work_packages)

FormNext ==
    \/ FormLoaded
    \/ FormInputSubject
    \/ FormSelectStatus
    \/ FormSelectPriority
    \/ FormSelectAssignee
    \/ FormTypeChanged
    \/ FormTypeReloaded
    \/ FormSave
    \/ FormSaveAnswered
    \/ FormDropped
    \/ FormCancel

InitForm == ClientIdle /\ FormOpened /\ login = LoginSkipped /\ decode = DecodeIdle /\ search = SearchUnused

SpecForm == InitForm /\ [][FormNext]_vars

\* One client object, no call started; the screens stay as mounted.
InitClient == ClientIdle /\ UiInit /\ login = LoginSkipped /\ decode = DecodeIdle /\ search = SearchUnused

InitLogin == ClientIdle /\ UiInit /\ login = LoginMounted /\ decode = DecodeIdle /\ search = SearchUnused

SpecLogin == InitLogin /\ [][LoginNext]_vars

(***************************************************************************)
(* The collection fetches and create_work_package (client.py 254-353,      *)
(* 406-451), one call step by step.                                        *)
(***************************************************************************)
MaxPage == 3

PageSizes == {1, 10, 25}

\* json.dumps(value): the text that encodes value
JsonDumps(value) == [json_text |-> value]

\* The mutant: the offset counted from zero.
PageParamsZeroBased(page, page_size) ==
    [offset |-> (page - 1) * page_size, pageSize |-> page_size]

\* params of get_projects and get_work_packages
PageParams(page, page_size) ==
    [offset |-> (page - 1) * page_size + 1, pageSize |-> page_size]

\* get_projects: the filters parameter is added when active is not None.
ProjectsParams(active, page, page_size) ==
    IF active # None
    THEN Put(PageParams(page, page_size), "filters",
             JsonDumps(<<[active |-> [operator |-> "=",
                                      values |-> <<IF active[1] THEN "t" ELSE "f">>]]>>))
    ELSE PageParams(page, page_size)

FetchRequest(path, params) ==
    [method |-> "GET", path |-> path, json |-> EmptyDict, params |-> params]

\* The calls made: operation, arguments, and the kind of entity returned.
FetchCalls ==
    {[op |-> "get_projects", kind |-> "Project", active |-> a, page |-> p,
      page_size |-> n] : a \in Opt(BOOLEAN), p \in 1..MaxPage, n \in PageSizes}
        \cup {[op |-> "get_work_packages", kind |-> "WorkPackage", project_id |-> i,
               page |-> p, page_size |-> n] :
                i \in Opt({0, 1}), p \in 1..MaxPage, n \in PageSizes}
        \cup {[op |-> "get_types", kind |-> "Type", project_id |-> i] : i \in Opt({0, 1})}
        \cup {[op |-> "get_statuses", kind |-> "Status"],
              [op |-> "get_priorities", kind |-> "Priority"],
              [op |-> "get_project_members", kind |-> "User", project_id |-> 1]}

\* The request each of them sends.
FetchRequestOf(call) ==
    CASE call.op = "get_projects" ->
            FetchRequest(<<"projects">>,
                         ProjectsParams(call.active, call.page, call.page_size))
      [] call.op = "get_work_packages" ->
            FetchRequest(IF call.project_id # None /\ call.project_id[1] # 0
                         THEN <<"projects", call.project_id[1], "work_packages">>
                         ELSE <<"work_packages">>,
                         PageParams(call.page, call.page_size))
      [] call.op = "get_types" ->
            FetchRequest(IF call.project_id # None /\ call.project_id[1] # 0
                         THEN <<"projects", call.project_id[1], "types">>
                         ELSE <<"types">>, EmptyDict)
      [] call.op = "get_statuses" -> FetchRequest(<<"statuses">>, EmptyDict)
      [] call.op = "get_priorities" -> FetchRequest(<<"priorities">>, EmptyDict)
      [] call.op = "get_project_members" ->
            FetchRequest(<<"projects", call.project_id, "available_assignees">>, EmptyDict)

\* Elements of a collection: two that decode, one without its title.
ElementHal(kind, i) ==
    IF kind = "WorkPackage" THEN [id |-> i, subject |-> "Task", lockVersion |-> i]
    ELSE [id |-> i, name |-> Text("Full")]

FetchElements(kind) == {ElementHal(kind, 1), ElementHal(kind, 2), [id |-> 3]}

FetchResponses(kind) ==
    FailedResponses
        \cup {Response(HTTP_OK, EmptyDict), Response(HTTP_OK, [_embedded |-> EmptyDict])}
        \cup {Response(HTTP_OK, CollectionHal(elements)) :
                elements \in BoundedSeq(FetchElements(kind), 2)}

DecodeElement(kind, data) ==
    IF kind = "WorkPackage" THEN WorkPackageFromHal(data) ELSE EntityFromHal(kind, data)

\* The mutant: the list built back to front.
DecodeElementsReversed(kind, elements) ==
    [i \in 1..Len(elements) |-> DecodeElement(kind, elements[Len(elements) + 1 - i])]

\* [X.from_hal_json(elem) for elem in elements]
DecodeElements(kind, elements) ==
    [i \in 1..Len(elements) |-> DecodeElement(kind, elements[i])]

\* A collection fetch up to the await of _get.
FetchCall ==
    /\ UNCHANGED <<uiVars, login, decode, search>>
    /\ callPc = "idle"
    /\ \E call \in FetchCalls :
          /\ callOp' = call.op
          /\ callArgs' = Some(call)
          /\ callWire' = Append(callWire, FetchRequestOf(call))
    /\ callPc' = "get"
    /\ UNCHANGED <<callForm, callCatalog, callResult, callError, callMessage>>

\* The GET is answered: _get raises or returns, the elements are decoded.
FetchAnswered ==
    /\ UNCHANGED <<uiVars, login, decode, search>>
    /\ callPc = "get"
    /\ \E resp \in FetchResponses(callArgs[1].kind) :
          LET kind == callArgs[1].kind
              elements == CatalogElements(resp.json)
          IN  /\ callForm' = Some(resp)
              /\ IF RequestError(resp) # ""
                 THEN /\ callPc' = "raised"
                      /\ callError' = RequestError(resp)
                      /\ callMessage' = Some(ErrorMessage("Request failed: ", resp))
                      /\ UNCHANGED callResult
                 ELSE IF \E i \in 1..Len(elements) : ~EntityDecodes(kind, elements[i])
                 THEN /\ callPc' = "raised"
                      /\ callError' = "KeyError"
                      /\ callMessage' = Some(Message("key", None, ""))
                      /\ UNCHANGED callResult
                 ELSE /\ callPc' = "returned"
                      /\ callResult' = Some(DecodeElements(kind, elements))
                      /\ UNCHANGED <<callError, callMessage>>
    /\ UNCHANGED <<callOp, callArgs, callWire, callCatalog>>

\* The arguments create_work_package is called with.
CreateArgs ==
    [project_id : {1}, subject : {"Task"}, type_id : TypeIds,
     description : Opt({"", "text"}), assignee_id : Opt({0, 1}),
     status_id : Opt({0, 1}), priority_id : Opt({1})]

CreateResponses ==
    FailedResponses \cup {Response(HTTP_OK, ElementHal("WorkPackage", 1)),
                          Response(HTTP_OK, [id |-> 1])}

\* create_work_package up to the await of _post.
CreateCall ==
    /\ UNCHANGED <<uiVars, login, decode, search>>
    /\ callPc = "idle"
    /\ \E a \in CreateArgs :
          /\ callOp' = "create"
          /\ callArgs' = Some(a)
          /\ callWire' = Append(callWire, CreateRequest(a))
    /\ callPc' = "post"
    /\ UNCHANGED <<callForm, callCatalog, callResult, callError, callMessage>>

\* The POST is answered: _post raises or returns, the result is decoded.
CreateAnswered ==
    /\ UNCHANGED <<uiVars, login, decode, search>>
    /\ callPc = "post"
    /\ \E resp \in CreateResponses :
          /\ callForm' = Some(resp)
          /\ IF RequestError(resp) # ""
             THEN /\ callPc' = "raised"
                  /\ callError' = RequestError(resp)
                  /\ callMessage' = Some(ErrorMessage("Request failed: ", resp))
                  /\ UNCHANGED callResult
             ELSE IF ~WorkPackageDecodes(resp.json)
             THEN /\ callPc' = "raised"
                  /\ callError' = "KeyError"
                  /\ callMessage' = Some(Message("key", None, ""))
                  /\ UNCHANGED callResult
             ELSE /\ callPc' = "returned"
                  /\ callResult' = Some(<<WorkPackageFromHal(resp.json)>>)
                  /\ UNCHANGED <<callError, callMessage>>
    /\ UNCHANGED <<callOp, callArgs, callWire, callCatalog>>

FetchNext ==
    \/ FetchCall
    \/ FetchAnswered
    \/ CreateCall
    \/ CreateAnswered

SpecFetch == InitClient /\ [][FetchNext]_vars

InitSearch ==
    /\ ClientIdle /\ UiInit /\ login = LoginSkipped /\ decode = DecodeIdle
    /\ search \in {SearchMounted("projects"), SearchMounted("work_packages")}

SpecSearch == InitSearch /\ [][SearchNext]_vars

InitDecode == ClientIdle /\ UiInit /\ login = LoginSkipped /\ decode = DecodeIdle /\ search = SearchUnused

SpecDecode == InitDecode /\ [][DecodeNext]_vars

SpecClient == InitClient /\ [][ClientNext]_vars

(***************************************************************************)
(* The request primitives: test_connection, _get, _post, _patch            *)
(* (client.py 52-240)                                                      *)
(***************************************************************************)
RequestCalls ==
    {[op |-> "test_connection", method |-> "GET", endpoint |-> <<>>]}
        \cup {[op |-> "_get", method |-> "GET", endpoint |-> e] :
                e \in {<<"projects">>, <<"statuses">>, <<"work_packages", 1>>}}
        \cup {[op |-> "_post", method |-> "POST", endpoint |-> e] :
                e \in {<<"work_packages">>, <<"work_packages", 1, "form">>}}
        \cup {[op |-> "_patch", method |-> "PATCH", endpoint |-> e] :
                e \in {<<"work_packages", 1>>, <<"work_packages", 2>>}}

\* What one request can be answered with: a response of any status class
\* with or without an error message in its body, a response whose body is
\* not JSON, or no response at all.
RequestAnswers ==
    {Response(status, json) :
        status \in {HTTP_OK, HTTP_NO_CONTENT, HTTP_FOUND, HTTP_UNAUTHORIZED,
                    HTTP_NOT_FOUND, HTTP_CONFLICT, HTTP_SERVER_ERROR},
        json \in {EmptyDict, [message |-> "detail"]}}
        \cup {Undecodable(HTTP_OK), Undecodable(HTTP_SERVER_ERROR), TransportFailure}

\* The primitive up to the await of the httpx call.
RequestCall ==
    /\ UNCHANGED <<uiVars, login, decode, search>>
    /\ callPc = "idle"
    /\ \E call \in RequestCalls :
          /\ callOp' = call.op
          /\ callArgs' = Some(call.endpoint)
          /\ callWire' = Append(callWire, Request(call.method, call.endpoint, EmptyDict))
    /\ callPc' = "request"
    /\ UNCHANGED <<callForm, callCatalog, callResult, callError, callMessage>>

\* The httpx call is over: the primitive returns True (test_connection) or
\* response.json(), or raises.
RequestAnswered ==
    /\ UNCHANGED <<uiVars, login, decode, search>>
    /\ callPc = "request"
    /\ \E resp \in RequestAnswers :
          LET probe == callOp = "test_connection"
              error == IF probe THEN ConnectionError(resp) ELSE RequestError(resp)
              prefix == IF probe THEN "Connection failed: " ELSE "Request failed: "
          IN  /\ callForm' = Some(resp)
              /\ IF error = ""
                 THEN /\ callPc' = "returned"
                      /\ callResult' = IF probe THEN Some(TRUE) ELSE Some(resp.json)
                      /\ UNCHANGED <<callError, callMessage>>
                 ELSE /\ callPc' = "raised"
                      /\ callError' = error
                      /\ callMessage' = Some(ErrorMessage(prefix, resp))
                      /\ UNCHANGED callResult
    /\ UNCHANGED <<callOp, callArgs, callWire, callCatalog>>

RequestNext ==
    \/ RequestCall
    \/ RequestAnswered

SpecRequest == InitClient /\ [][RequestNext]_vars

(***************************************************************************)
(* Claims about the client operations, checked under SpecClient            *)
(***************************************************************************)

\* C3: update_work_package(w, ..., lock_version = v) issues exactly one
\* PATCH, to /work_packages/{w}, whose body holds lockVersion = v, and the
\* WorkPackage it returns carries the lockVersion of the server's answer,
\* not the one that was sent.
C3_UpdateRoundTrip ==
    (callOp = "update" /\ callArgs[1].lock_version # None) =>
        LET a == callArgs[1]
        IN  /\ Len(callWire) = 1
            /\ callWire[1].method = "PATCH"
            /\ callWire[1].path = <<"work_packages", a.work_package_id>>
            /\ "lockVersion" \in DOMAIN callWire[1].json
            /\ callWire[1].json["lockVersion"] = a.lock_version[1]
            /\ callPc = "returned" =>
                  LET answer == callResult[1].response
                  IN  callResult[1].wp.lock_version =
                        IF "lockVersion" \in DOMAIN answer
                        THEN Some(answer["lockVersion"]) ELSE None

\* C3 witness: lockVersion 1 was sent, the server answered lockVersion 2 and
\* the returned WorkPackage carries 2.
C3_Witness ==
    /\ callOp = "update"
    /\ callPc = "returned"
    /\ callArgs[1].lock_version = Some(1)
    /\ "lockVersion" \in DOMAIN callResult[1].response
    /\ callResult[1].response["lockVersion"] = 2
    /\ callResult[1].wp.lock_version = Some(2)

\* C4: the PATCH body holds subject, description and the assignee, status
\* and priority links exactly for the arguments that were supplied, no key
\* for an argument that was not, and no _links object when no relation
\* argument was supplied.
C4_OnlySuppliedFieldsSent ==
    callOp = "update" =>
        LET a == callArgs[1]
            body == callWire[1].json
            links == Get(body, "_links", EmptyDict)
        IN  /\ DOMAIN body \subseteq {"lockVersion", "subject", "description", "_links"}
            /\ DOMAIN links \subseteq {"assignee", "status", "priority"}
            /\ ("subject" \in DOMAIN body) <=> (a.subject # None)
            /\ a.subject # None => body["subject"] = a.subject[1]
            /\ ("description" \in DOMAIN body) <=> (a.description # None)
            /\ a.description # None => body["description"] = [raw |-> a.description[1]]
            /\ ("assignee" \in DOMAIN links) <=> (a.assignee_id # None)
            /\ ("status" \in DOMAIN links) <=> (a.status_id # None)
            /\ a.status_id # None =>
                  links["status"] = [href |-> Some(<<"api", "v3", "statuses", a.status_id[1]>>)]
            /\ ("priority" \in DOMAIN links) <=> (a.priority_id # None)
            /\ a.priority_id # None =>
                  links["priority"] =
                      [href |-> Some(<<"api", "v3", "priorities", a.priority_id[1]>>)]
            /\ ("_links" \in DOMAIN body) <=>
                  (a.assignee_id # None \/ a.status_id # None \/ a.priority_id # None)

\* C4 witness: a call that supplies an empty description and status 0 and
\* nothing else; the body holds exactly description and _links.status.
C4_Witness ==
    /\ callOp = "update"
    /\ callArgs[1].subject = None
    /\ callArgs[1].description = Some("")
    /\ callArgs[1].status_id = Some(0)
    /\ callArgs[1].assignee_id = None
    /\ callArgs[1].priority_id = None
    /\ callArgs[1].lock_version = None
    /\ DOMAIN callWire[1].json = {"description", "_links"}
    /\ DOMAIN callWire[1].json["_links"] = {"status"}

\* C5: with the unassign sentinel (assignee_id = 0) the PATCH body holds
\* _links.assignee with a null href: the link is not omitted, is not an href
\* to user 0, and the body differs from the one built when assignee_id is
\* not supplied.
C5_UnassignSentinel ==
    (callOp = "update" /\ callArgs[1].assignee_id = Some(0)) =>
        LET a == callArgs[1]
            body == callWire[1].json
        IN  /\ "_links" \in DOMAIN body
            /\ "assignee" \in DOMAIN body["_links"]
            /\ body["_links"]["assignee"] = [href |-> None]
            /\ body["_links"]["assignee"].href # Some(<<"api", "v3", "users", 0>>)
            /\ body # UpdateData([a EXCEPT !.assignee_id = None])

\* C5 witness: a PATCH sent for a call with assignee_id = 0.
C5_Witness ==
    /\ callOp = "update"
    /\ callPc = "patch"
    /\ callArgs[1].assignee_id = Some(0)
    /\ callWire[1].json["_links"]["assignee"].href = None

\* The ids of the Status objects of a form answer's allowedValues, and the id
\* of the current status its payload embeds.
AnswerAllowed(json) == json["_embedded"]["schema"]["status"]["_embedded"]["allowedValues"]
AnswerCurrent(json) == json["_embedded"]["payload"]["_embedded"]["status"]

\* The form answer is a 2xx answer whose payload embeds the current status
\* as a Status object and whose allowed values all decode.
FormNamesCurrent ==
    /\ callForm # None
    /\ RequestError(callForm[1]) = ""
    /\ "_embedded" \in DOMAIN callForm[1].json
    /\ "_embedded" \in DOMAIN callForm[1].json["_embedded"]["payload"]
    /\ "_type" \in DOMAIN AnswerCurrent(callForm[1].json)
    /\ \A i \in 1..Len(AnswerAllowed(callForm[1].json)) :
          LET e == AnswerAllowed(callForm[1].json)[i]
          IN  e["_type"] = "Status" => "name" \in DOMAIN e

C9_FallbackToCatalog ==
    (/\ callOp \in {"statuses_for_new", "status_transitions"}
     /\ callPc \in {"returned", "raised"}
     /\ \/ RequestError(callForm[1]) # ""
        \/ StatusObjects(AllowedValues(callForm[1].json)) = <<>>) =>
        /\ callCatalog # None
        /\ RequestError(callCatalog[1]) = "" =>
              /\ callPc = "returned"
              /\ Ids(callResult[1]) = Ids(CatalogElements(callCatalog[1].json))

\* C10: when the form answer for a new work package carries a non-empty
\* allowedValues list of Status objects, get_available_statuses_for_new
\* returns exactly those statuses in the server's order, and issues no
\* GET /statuses.
C10_AllowedValuesReturned ==
    (/\ callOp = "statuses_for_new"
     /\ callForm # None
     /\ RequestError(callForm[1]) = ""
     /\ "_embedded" \in DOMAIN callForm[1].json
     /\ AnswerAllowed(callForm[1].json) # <<>>
     /\ \A i \in 1..Len(AnswerAllowed(callForm[1].json)) :
           LET e == AnswerAllowed(callForm[1].json)[i]
           IN  e["_type"] = "Status" /\ "name" \in DOMAIN e) =>
        LET allowed == AnswerAllowed(callForm[1].json)
        IN  /\ callPc = "returned"
            /\ Len(callResult[1]) = Len(allowed)
            /\ \A i \in 1..Len(allowed) :
                  /\ callResult[1][i].id = allowed[i].id
                  /\ callResult[1][i].name = allowed[i].name
            /\ Len(callWire) = 1
            /\ callWire[1].method = "POST"
            /\ callCatalog = None

\* C10 witness: the form answered with statuses 2, 1 and the lookup returned
\* 2, 1.
C10_Witness ==
    /\ callOp = "statuses_for_new"
    /\ callPc = "returned"
    /\ callCatalog = None
    /\ Ids(callResult[1]) = <<2, 1>>

(***************************************************************************)
(* Claims about one session of the form, checked under SpecForm            *)
(***************************************************************************)
\* The lockVersion a request body carries, None when it carries none.
SentLock(request) ==
    IF "lockVersion" \in DOMAIN request.json
    THEN Some(request.json["lockVersion"]) ELSE None

\* on_save of an edit form awaits update_work_package.
EditSubmitting == form.pc = "submitting" /\ form.is_edit

\* C1: in an edit session opened on a snapshot that has a lock_version (the
\* work package action_edit_work_package passed to the form, which stays the
\* screen's selected_work_package while the session lasts), every request
\* on_save issues is a PATCH of that work package whose body carries
\* lockVersion, equal to the snapshot's lock_version.
C1_SnapshotLockVersionSent ==
    (EditSubmitting /\ screen.selected_work_package[1].lock_version # None) =>
        /\ form.request[1].method = "PATCH"
        /\ form.request[1].path = <<"work_packages", screen.selected_work_package[1].id>>
        /\ SentLock(form.request[1]) = screen.selected_work_package[1].lock_version

\* C1 witness: a resubmission (the error label still holds the text of the
\* failed save) of a session opened on a snapshot with lock_version 0.
C1_Witness ==
    /\ EditSubmitting
    /\ form.error = "Error saving"
    /\ screen.selected_work_package[1].lock_version = Some(0)
    /\ SentLock(form.request[1]) = Some(0)

HasNullAssigneeLink(json) ==
    /\ "_links" \in DOMAIN json
    /\ "assignee" \in DOMAIN json["_links"]
    /\ json["_links"]["assignee"]["href"] = None

\* C6: when the edit form of a work package that has an assignee is saved
\* with the "Unassigned" option (value 0) selected, the PATCH body holds an
\* assignee link whose href is null.
C6_UnassignedSelectedClearsAssignee ==
    (EditSubmitting /\ form.work_package[1].assignee # None /\ form.assignee = Some(0)) =>
        HasNullAssigneeLink(form.request[1].json)

\* C7: when the status lookup started by a type selection has returned a
\* list, the statuses and the options of the status select are that list,
\* the lookup was asked for the selected type, and the selected status is a
\* member of the list: the first element when the work package has no
\* current status or its current status is not in the list. With an empty
\* list nothing is selected.
C7_StatusOptionsFollowType ==
    (formLookup # None /\ formLookup[1].call = "reload"
        /\ formLookup[1].outcome.error = "") =>
        LET items == formLookup[1].outcome.items
            type_link == formLookup[1].request.json["_links"]["type"]["href"]
            current == IF form.is_edit THEN form.work_package[1].status ELSE None
        IN  /\ form.pc = "editing"
            /\ form.statuses = items
            /\ form.status_options = items
            /\ form.type # None
            /\ type_link = Some(Href("types", form.type[1]))
            /\ IF items = <<>> THEN form.status = None
               ELSE /\ form.status # None
                    /\ form.status[1] \in Range(items)
                    /\ (current = None \/ current[1] \notin Range(items))
                            => form.status = Some(items[1])

\* C7 witness: an edit form whose work package has status 1 and whose status
\* select held statuses 1 and 2; for the newly selected type 2 the server
\* allowed status 2 only, which is now the only option and selected.
C7_Witness ==
    /\ formLookup # None
    /\ formLookup[1].outcome = Returned(<<2>>)
    /\ form.is_edit
    /\ form.work_package[1].status = Some(1)
    /\ form.type = Some(2)
    /\ form.status_options = <<2>>
    /\ form.status = Some(2)

Finished == callPc \in {"returned", "raised"}

Unauthorized(answer) == answer # None /\ answer[1].status = HTTP_UNAUTHORIZED

\* C11: when a request of a finished client operation was answered with
\* 401 (here the form POST or the last GET /statuses of a status lookup),
\* the operation has raised AuthenticationError.
C11_UnauthorizedReachesCaller ==
    (Finished /\ (Unauthorized(callForm) \/ Unauthorized(callCatalog))) =>
        (callPc = "raised" /\ callError = "AuthenticationError")

(***************************************************************************)
(* Claims about the request primitives, checked under SpecRequest          *)
(***************************************************************************)
\* The request got no response, or a response that is not 2xx.
RequestFailed(resp) ==
    resp.kind = "transport" \/ resp.status < 200 \/ resp.status > 299

\* C12: a primitive whose request failed has raised and returned no value;
\* unless the response was a 401 the exception is an APIError, and for a
\* response its message holds the status code. No primitive raises anything
\* but APIError or AuthenticationError.
C12_FailuresRaiseAPIError ==
    Finished =>
        /\ callPc = "raised" => callError \in {"APIError", "AuthenticationError"}
        /\ RequestFailed(callForm[1]) =>
              /\ callPc = "raised"
              /\ callResult = None
              /\ (callForm[1].kind = "transport"
                    \/ callForm[1].status # HTTP_UNAUTHORIZED) =>
                    /\ callError = "APIError"
                    /\ callForm[1].kind # "transport" =>
                          callMessage[1].code = Some(callForm[1].status)

\* C12 witness: _patch answered with 409 has raised an APIError whose
\* message holds 409, and a request without a response has raised too.
C12_Witness ==
    /\ callOp = "_patch"
    /\ callPc = "raised"
    /\ callForm[1].status = HTTP_CONFLICT
    /\ callError = "APIError"
    /\ callMessage[1].code = Some(HTTP_CONFLICT)

(***************************************************************************)
(* Claims about the states of the form, checked under SpecForm             *)
(***************************************************************************)
\* The create or update call of on_save has just been answered.
SaveAnswered == formLookup # None /\ formLookup[1].call = "save"

\* The form was dismissed with a work package: the on_dismiss closure of the
\* work-packages screen has scheduled its reload.
DismissedWithResult == form = FormClosed /\ screen.pc = "loading"

\* C13: when the create or update request of a form that is still shown
\* when the answer arrives fails, the form stays on the screen in its editing state with the error
\* displayed and accepts another save; the form is dismissed with a work
\* package only when a create or update request of the session has returned
\* one; and a create or update request is in flight only after the option
\* loading of the form has finished.
C13_FormStates ==
    /\ (SaveAnswered /\ formLookup[1].outcome.error # "" /\ formLookup[1].shown) =>
          /\ form.shown
          /\ form.pc = "editing"
          /\ form.error_display
          /\ form.error = "Error saving"
          /\ ENABLED FormSave
    /\ DismissedWithResult =>
          /\ SaveAnswered
          /\ formLookup[1].outcome.error = ""
          /\ formLookup[1].request.method \in {"POST", "PATCH"}
    /\ form.pc = "submitting" => ~form.loading

\* C13 witness: an update answered with an error has brought the edit form
\* back to editing.
C13_Witness ==
    /\ SaveAnswered
    /\ formLookup[1].outcome.error = "APIError"
    /\ form.is_edit
    /\ form.pc = "editing"
    /\ form.error = "Error saving"

\* The form has just been cancelled.
Cancelled == formLookup # None /\ formLookup[1].call = "cancel"

\* C14: the step that cancels the form, whatever the form was doing, takes
\* it off the screen, issues no request (the request in flight, if any, is
\* the one that was in flight before) and leaves the work-packages screen as
\* it was: no reload, the same selected work package and panel. Nothing the
\* cancelled form does afterwards changes the work-packages screen either.
C14_CancelLeavesScreen ==
    [][/\ (form.shown /\ Cancelled') =>
             /\ ~form'.shown
             /\ form'.request = form.request
             /\ screen' = screen
       /\ ~form.shown => screen' = screen]_vars

\* C14 witness: the edit form was cancelled while its PATCH was in flight.
C14_Witness ==
    /\ Cancelled
    /\ ~form.shown
    /\ form.pc = "submitting"
    /\ form.is_edit
    /\ screen.pc = "idle"
    /\ screen.selected_work_package = form.work_package

\* A request that creates or updates a work package.
IsMutating(request) ==
    \/ request.method = "PATCH"
    \/ request.method = "POST" /\ request.path = <<"work_packages">>

MutatingInFlight == {i \in 1..Len(form.request) : IsMutating(form.request[i])}

OptionState(f) ==
    [k \in {"types", "statuses", "priorities", "users", "type_options", "type",
            "status_options", "status", "status_disabled", "priority_options",
            "priority", "assignee_options", "assignee", "error_display", "error"}
        |-> f[k]]

Abandoned(f) == ~f.shown /\ f.pc \in {"loading", "reloading", "submitting"}

C17_LoginClientsClosed ==
    login.pc # "probing" => login.closed = login.opened

\* A text that is a numeral: one digit or more.
IsNumeral(part) == part # <<>> /\ \A i \in 1..Len(part) : IsDigit(part[i])

\* The dual-source rule for one relation of the work package decoded: the
\* embedded object when there is one, else the link when the last segment
\* of its href is a numeral, else nothing.
FollowsDualSource(rel) ==
    LET embedded_data == EmbeddedOf(decode.data, rel)
        link_data == LinkOf(decode.data, rel)
        part == LastPart(RStrip(Get(link_data, "href", <<>>)))
        got == decode.result[1][rel]
    IN  IF Truthy(embedded_data)
        THEN /\ got # None
             /\ got[1].id = embedded_data["id"]
             /\ got[1].name = embedded_data["name"]
        ELSE IF Truthy(link_data) /\ IsNumeral(part)
        THEN got # None /\ Decimal(got[1].id) = part
        ELSE got = None

\* C18: decoding a work package never aborts because of a link, and each of
\* its six relations follows the dual-source rule whatever the other five
\* are supplied as.
C18_DualSourceRule ==
    decode.op = "work_package" =>
        /\ ~decode.raised
        /\ \A rel \in Relations : FollowsDualSource(rel)

\* The relation decoded alone was given as a link only, to id n.
LinkOnly(n) ==
    /\ decode.op = "relation"
    /\ ~Truthy(decode.data.embedded)
    /\ Truthy(decode.data.link)
    /\ decode.data.link["href"] = HrefText(Collection(decode.kind), n)

\* C19: a relation given only as a link to id n (0 included) decodes to an
\* entity with the id and name that the embedded object {id: n, name: title}
\* decodes to, the name being "<Kind> n" without a title, and with the other
\* fields at their defaults.
C19_LinkMatchesEmbedded ==
    \A n \in LinkIds :
        LinkOnly(n) =>
            LET title == Get(decode.data.link, "title", Synthesized(decode.kind, n))
                full == EntityFromHal(decode.kind, [id |-> n, name |-> title])
            IN  /\ decode.result # None
                /\ decode.result[1].id = full.id
                /\ decode.result[1].name = full.name
                /\ decode.kind \in {"Status", "Type"} => decode.result[1].color = None
                /\ decode.kind = "User" => decode.result[1].email = None
                /\ decode.kind = "Project" =>
                      /\ decode.result[1].identifier = ""
                      /\ decode.result[1].active
                      /\ ~decode.result[1].public

\* The key that holds an entity's title.
TitleKey(kind) == IF kind = "WorkPackage" THEN "subject" ELSE "name"

\* C20: an entity decoder fails exactly when the id or the title is missing
\* from its input; missing optional keys do not make it fail.
C20_RequiredFields ==
    decode.op = "entity" =>
        (decode.raised <=> ~({"id", TitleKey(decode.kind)} \subseteq DOMAIN decode.data))

\* The estimatedTime of the work package decoded is this text.
Estimated(text) ==
    /\ decode.op = "duration"
    /\ "estimatedTime" \in DOMAIN decode.data
    /\ decode.data["estimatedTime"] = text

\* C21: PT<h>H<m>M, PT<h>H and PT<m>M decode to 60*h + m, 60*h and m minutes;
\* an absent or null estimatedTime decodes to no estimate, not to 0.
C21_DurationDecoded ==
    /\ \A h \in 0..MaxDuration, m \in 0..MaxDuration :
          /\ Estimated(HoursMinutes(h, m)) =>
                ~decode.raised /\ decode.result = Some(60 * h + m)
          /\ Estimated(HoursOnly(h)) => ~decode.raised /\ decode.result = Some(60 * h)
          /\ Estimated(MinutesOnly(m)) => ~decode.raised /\ decode.result = Some(m)
    /\ (decode.op = "duration" /\ Get(decode.data, "estimatedTime", <<>>) = <<>>) =>
          ~decode.raised /\ decode.result = None

C21_Witness ==
    /\ Estimated(HoursMinutes(1, 10))
    /\ decode.result = Some(70)

\* C25: one call of a client operation sends no request twice: one request
\* for update, at most the form POST and one GET /statuses for a lookup.
C25_NoRequestReissued ==
    /\ \A i, j \in 1..Len(callWire) : i # j => callWire[i] # callWire[j]
    /\ Len(callWire) <= IF callOp \in {"statuses_for_new", "status_transitions"}
                        THEN 2 ELSE 1

\* The call made is a paged fetch.
Paged == callOp \in {"get_projects", "get_work_packages"} /\ Len(callWire) >= 1

\* C22: get_projects and get_work_packages send offset = (page-1)*pageSize + 1
\* and the page size as given; get_projects sends filters exactly when the
\* active flag was given.
C22_PagingParameters ==
    Paged =>
        LET call == callArgs[1]
            params == callWire[1].params
        IN  /\ params["offset"] = (call.page - 1) * call.page_size + 1
            /\ params["pageSize"] = call.page_size
            /\ callOp = "get_projects" =>
                  ("filters" \in DOMAIN params <=> call.active # None)

C22_Witness ==
    /\ Paged
    /\ callOp = "get_projects"
    /\ callArgs[1].page = 2 /\ callArgs[1].page_size = 10
    /\ callWire[1].params["offset"] = 11
    /\ "filters" \in DOMAIN callWire[1].params

\* The call made is a collection fetch that was answered without an
\* exception of _get.
Fetched ==
    /\ callOp \in {"get_projects", "get_work_packages", "get_types", "get_statuses",
                   "get_priorities", "get_project_members"}
    /\ callPc = "returned"

\* C23: a collection fetch returns as many entities as the answer has
\* elements, in their order, each the decoding of its element; an answer
\* without _embedded or without elements gives the empty sequence.
C23_ElementsInOrder ==
    Fetched =>
        LET json == callForm[1].json
            elements == IF "_embedded" \in DOMAIN json
                           /\ "elements" \in DOMAIN json["_embedded"]
                        THEN json["_embedded"]["elements"] ELSE <<>>
        IN  /\ Len(callResult[1]) = Len(elements)
            /\ \A i \in 1..Len(elements) :
                  /\ callResult[1][i].id = elements[i]["id"]
                  /\ callResult[1][i] = DecodeElement(callArgs[1].kind, elements[i])

C23_Witness ==
    /\ Fetched
    /\ callOp = "get_types"
    /\ Len(callResult[1]) = 2
    /\ callResult[1][1].id = 2 /\ callResult[1][2].id = 1

\* The keys of the payload of create_work_package that stand for its
\* optional arguments.
SuppliedKeys(a) ==
    {k \in {"assignee", "status", "priority"} :
        a[IF k = "assignee" THEN "assignee_id" ELSE IF k = "status" THEN "status_id"
          ELSE "priority_id"] # None}

\* C24: create_work_package sends one POST whose payload has the subject, the
\* project link and the type link, and has the description and the links of
\* assignee, status and priority exactly when the argument was given; what it
\* returns is the decoding of the answer.
C24_CreatePayload ==
    callOp = "create" =>
        LET a == callArgs[1]
            data == callWire[1].json
        IN  /\ Len(callWire) = 1
            /\ callWire[1].method = "POST"
            /\ data["subject"] = a.subject
            /\ data["_links"]["project"] = [href |-> Some(Href("projects", a.project_id))]
            /\ data["_links"]["type"] = [href |-> Some(Href("types", a.type_id))]
            /\ "description" \in DOMAIN data <=> a.description # None
            /\ DOMAIN data["_links"] = {"project", "type"} \cup SuppliedKeys(a)
            /\ callPc = "returned" =>
                  callResult[1] = <<WorkPackageFromHal(callForm[1].json)>>

\* The item matches the text of the search input, letter case aside.
MatchesInput(item) ==
    LET texts == IF search.kind = "projects" THEN {item.name, item.identifier}
                 ELSE {item.subject} \cup (IF item.status # None THEN {item.status[1]} ELSE {})
                                     \cup (IF item.assignee # None THEN {item.assignee[1]}
                                           ELSE {})
    IN  \E text \in texts :
          \E i \in 0..(Len(text) - Len(search.value)) :
             \A j \in 1..Len(search.value) :
                LowerChar(text[i + j]) = LowerChar(search.value[j])

\* C26: the filtered list is the loaded list restricted, in order, to the
\* items that match the search input case-insensitively; it is the whole
\* list when the input is empty, and a closed search has an empty query.
C26_FilteredIsMatchingSubsequence ==
    /\ search.filtered = IF search.value = <<>> THEN search.items
                         ELSE SelectSeq(search.items, LAMBDA item : MatchesInput(item))
    /\ search.hidden => search.value = <<>> /\ search.search_query = <<>>

C26_Witness ==
    /\ search.kind = "work_packages"
    /\ search.value = <<"A", "B">>
    /\ Len(search.items) = 3
    /\ Len(search.filtered) = 1
    /\ search.filtered[1].id = 1

\* The edit form has sent its update request with a type selected that is
\* not the work package's.
TypeChangedAndSaved ==
    /\ form.is_edit /\ form.work_package # None
    /\ form.pc = "submitting"
    /\ form.type # None
    /\ form.type # form.work_package[1].type

\* C27: the update request of an edit form in which another type was
\* selected carries that type.
C27_SelectedTypeSent ==
    TypeChangedAndSaved =>
        LET json == form.request[1].json
        IN  /\ "_links" \in DOMAIN json
            /\ "type" \in DOMAIN json["_links"]
            /\ json["_links"]["type"] = [href |-> Some(Href("types", form.type[1]))]

\* The status lookup of a type change has just been answered, with these
\* statuses, on a form that is shown.
Reloaded ==
    /\ formLookup # None
    /\ formLookup[1].call = "reload"
    /\ formLookup[1].outcome.error = ""

\* C28 as stated: a status selected before the type change that is among the
\* refreshed statuses stays selected.
C28_SelectionKept ==
    (Reloaded /\ formLookup[1].previous # None
              /\ formLookup[1].previous[1] \in Range(formLookup[1].outcome.items)) =>
        form.status = formLookup[1].previous

\* C28 as the form behaves: after a type change the selected status is the
\* work package's own status when an edit form finds it among the refreshed
\* statuses, else the first refreshed status, whatever was selected before;
\* with no refreshed status nothing is selected, and a failed lookup leaves
\* the selection as it was.
C28_SelectionAfterTypeChange ==
    (formLookup # None /\ formLookup[1].call = "reload") =>
        LET items == formLookup[1].outcome.items
            own == IF form.is_edit /\ form.work_package # None
                   THEN form.work_package[1].status ELSE None
        IN  IF formLookup[1].outcome.error # "" THEN form.status = formLookup[1].previous
            ELSE IF items = <<>> THEN form.status = None
            ELSE IF own # None /\ own[1] \in Range(items) THEN form.status = own
            ELSE form.status = Some(items[1])

C28_Witness ==
    /\ Reloaded
    /\ ~form.is_edit
    /\ formLookup[1].previous = Some(2)
    /\ formLookup[1].outcome.items = <<1, 2>>
    /\ form.status = Some(1)

\* The form is shown and idle, and its subject is blank or no type is
\* selected.
Invalid(f) ==
    /\ f.shown /\ f.pc = "editing"
    /\ \/ Strip(f.subject) = ""
       \/ f.type = None

\* C29: from a form whose subject is blank or whose type is not selected, no
\* step submits a create or update request; and the step that shows the
\* validation error (Save) shows "Subject is required" or "Type is required"
\* and changes nothing else of the form.
C29_InvalidSaveRejected ==
    [][Invalid(form) =>
          /\ form'.pc # "submitting"
          /\ \A i \in 1..Len(form'.request) : ~IsMutating(form'.request[i])
          /\ (form'.shown /\ <<form'.error, form'.error_display>> #
                              <<form.error, form.error_display>>) =>
                /\ form' = [form EXCEPT !.error = form'.error, !.error_display = TRUE]
                /\ form'.error = IF Strip(form.subject) = "" THEN "Subject is required"
                                 ELSE "Type is required"]_vars

C29_Witness ==
    /\ Invalid(form)
    /\ form.subject = "Task"
    /\ form.error = "Type is required"
    /\ form.error_display
    /\ form.request = <<>>

\* The configuration in memory and the credentials file.
Stored(l) == <<l.config, l.env_file>>

\* A field of the login screen is empty.
FieldEmpty(l) == l.api_url = <<>> \/ Strip(l.api_key) = ""

====
